---- MODULE Spec2Model ----
(***************************************************************************)
(* A model of the 5:15 agent: the note/event matcher (synthesis/matcher),  *)
(* the draft orchestrator (synthesis/draft, index) and the local notes     *)
(* cache reader (collectors/granola-local).                                *)
(*                                                                         *)
(* Strings are sequences of one-character strings.  Instants are integers  *)
(* counted in ticks of 30 seconds.  A score is the double the code         *)
(* computes, written as the exact rational num/den plus dev, the double's  *)
(* offset below or above that rational in units of 2^-56.                  *)
(***************************************************************************)
EXTENDS Integers, Sequences, FiniteSets, TLC

VARIABLES
    yourName,       \* config.yourName
    events,         \* matchNotesToEvents: parameter events
    notes,          \* matchNotesToEvents: parameter notes
    score,          \* result of calculateMatchScore(events[1], notes[1])
    matched,        \* result of matchNotesToEvents(events, notes)
    mpc,            \* position of the matcher harness
    env,            \* process.env: which of the variables config.ts reads are set
    cacheFile,      \* the Granola cache file on disk
    pc,             \* position of main / synthesizeDraft
    calls,          \* the calls issued and how each ended, in order
    allEvents,      \* synthesizeDraft: allEvents
    calendarEvents, \* synthesizeDraft: calendarEvents
    slackActivity,  \* synthesizeDraft: slackActivity
    granolaNotes,   \* synthesizeDraft: granolaNotes
    previous515,    \* synthesizeDraft: previous515
    matchedMeetings,\* synthesizeDraft: matchedMeetings
    draft,          \* main: draft
    outputLocation, \* main: outputLocation
    exitCode,       \* the exit code of the process, once it has ended
    parts,          \* the pieces the reply of the generation service is made of
    response,       \* parseDraftResponse: parameter response
    meetings,       \* parseDraftResponse: parameter matchedMeetings
    report,         \* result of parseDraftResponse(response, today, meetings)
    markdown,       \* result of formatDraftAsMarkdown(report)
    reparsed,       \* result of parseDraftResponse(markdown, today, meetings)
    ppc,            \* position of the parser harness
    notesData,      \* extractStructuredNotes: parameter notesData
    notesText,      \* result of extractStructuredNotes(notesData)
    content,        \* extractActionItems: parameter content
    actionItems,    \* result of extractActionItems(content), local cache collector
    notionActionItems, \* result of extractActionItems(content), Notion collector
    xpc,            \* position of the extractor harness
    priorities,     \* result of extractPriorities(content)
    summary,        \* result of extractSummary(content)
    searchMatches,  \* getActiveChannels: searchResult.messages.matches
    activeChannels, \* result of getActiveChannels()
    blocks,         \* extractTextFromBlocks: parameter blocks
    notesBlocksText,    \* result of extractTextFromBlocks(blocks), Notion notes collector
    previousBlocksText, \* result of extractTextFromBlocks(blocks), previous 5:15 collector
    page,           \* the children of the 5:15 page in Notion
    written,        \* writeDraftToNotion: parameter draft
    found,          \* result of getPrevious515() in the week after
    reordered,      \* matchNotesToEvents: the notes in another order
    matchedReordered, \* result of matchNotesToEvents(events, reordered)
    cpc             \* position of the collaborator harness

matcherVars == <<yourName, events, notes, score, matched, mpc>>

runVars ==
    <<env, cacheFile, pc, calls, allEvents, calendarEvents, slackActivity, granolaNotes,
      previous515, matchedMeetings, draft, outputLocation, exitCode>>

parserVars == <<parts, response, meetings, report, markdown, reparsed, ppc>>

extractVars == <<notesData, notesText, content, actionItems, notionActionItems, xpc>>

fieldVars == <<priorities, summary>>

collabVars ==
    <<searchMatches, activeChannels, blocks, notesBlocksText, previousBlocksText, page, written,
      found, reordered, matchedReordered, cpc>>

pureVars == <<parserVars, extractVars, fieldVars, collabVars>>

vars == <<matcherVars, runVars, pureVars>>

-----------------------------------------------------------------------------
(* Characters and strings                                                  *)

Uppers == <<"A","B","C","D","E","F","G","H","I","J","K","L","M","N","O","P","Q","R","S","T","U","V","W","X","Y","Z">>

Lowers == <<"a","b","c","d","e","f","g","h","i","j","k","l","m","n","o","p","q","r","s","t","u","v","w","x","y","z">>

DigitsUnderscore == <<"0","1","2","3","4","5","6","7","8","9","_">>

Range(s) == {s[i] : i \in DOMAIN s}

\* \s of a JavaScript regular expression (the whitespace the model uses)
IsSpace(c) == c \in {" ", "\t", "\n"}

\* \w of a JavaScript regular expression
IsWordChar(c) == c \in Range(Uppers) \cup Range(Lowers) \cup Range(DigitsUnderscore)

LowerChar(c) ==
    IF c \in Range(Uppers)
    THEN Lowers[CHOOSE i \in DOMAIN Uppers : Uppers[i] = c]
    ELSE c

\* String.prototype.toLowerCase
toLowerCase(s) == [i \in DOMAIN s |-> LowerChar(s[i])]

\* s.replace(/[^\w\s]/g, '')
StripNonWord(s) == SelectSeq(s, LAMBDA c : IsWordChar(c) \/ IsSpace(c))

RECURSIVE SplitFrom(_, _, _, _)
SplitFrom(s, i, cur, inSep) ==
    IF i > Len(s) THEN <<cur>>
    ELSE IF IsSpace(s[i])
         THEN IF inSep THEN SplitFrom(s, i + 1, cur, TRUE)
              ELSE <<cur>> \o SplitFrom(s, i + 1, <<>>, TRUE)
         ELSE SplitFrom(s, i + 1, Append(cur, s[i]), FALSE)

\* s.split(/\s+/): a leading or trailing run of whitespace leaves an empty piece
SplitWhitespace(s) == SplitFrom(s, 1, <<>>, FALSE)

-----------------------------------------------------------------------------
(* More of String.prototype and of the regular expressions                 *)

Min(S) == CHOOSE x \in S : \A y \in S : x <= y

Max(S) == CHOOSE x \in S : \A y \in S : x >= y

\* String.prototype.trim
trim(s) ==
    LET inked == { i \in DOMAIN s : ~IsSpace(s[i]) }
    IN  IF inked = {} THEN <<>> ELSE SubSeq(s, Min(inked), Max(inked))

\* s.split('\n'): the pieces between the line breaks, empty ones included
SplitLines(s) ==
    LET breaks == {0} \cup { i \in DOMAIN s : s[i] = "\n" } \cup {Len(s) + 1}
        Nth(k) == CHOOSE b \in breaks : Cardinality({ x \in breaks : x < b }) = k - 1
    IN  [k \in 1..(Cardinality(breaks) - 1) |-> SubSeq(s, Nth(k) + 1, Nth(k + 1) - 1)]

\* lines.join('\n')
RECURSIVE JoinLines(_)
JoinLines(lines) ==
    IF lines = <<>> THEN <<>>
    ELSE IF Len(lines) = 1 THEN lines[1]
    ELSE lines[1] \o <<"\n">> \o JoinLines(Tail(lines))

\* parts.join(separator)
RECURSIVE Join(_, _)
Join(pieces, separator) ==
    IF pieces = <<>> THEN <<>>
    ELSE IF Len(pieces) = 1 THEN pieces[1]
    ELSE pieces[1] \o separator \o Join(Tail(pieces), separator)

\* s.startsWith(prefix) from position p of s
StartsWithAt(s, p, prefix) ==
    /\ p + Len(prefix) - 1 <= Len(s)
    /\ \A k \in DOMAIN prefix : s[p + k - 1] = prefix[k]

\* s.includes(sub)
Includes(s, sub) == \E p \in 1..(Len(s) + 1) : StartsWithAt(s, p, sub)

\* a literal of a regular expression with the i flag matches at position p
MatchesIgnoreCaseAt(s, p, literal) ==
    /\ p + Len(literal) - 1 <= Len(s)
    /\ \A k \in DOMAIN literal : LowerChar(s[p + k - 1]) = LowerChar(literal[k])

\* the last position of the run of whitespace that starts at position a
SpaceRunEnd(s, a) ==
    LET inked == { k \in a..Len(s) : ~IsSpace(s[k]) }
    IN  IF inked = {} THEN Len(s) ELSE Min(inked) - 1

-----------------------------------------------------------------------------
(* The titles, names and instants the inputs are drawn from                *)

DesignSync == <<"D","e","s","i","g","n"," ","S","y","n","c">>

DesignReview == <<"D","e","s","i","g","n"," ","R","e","v","i","e","w">>

OneOnOneAlice == <<"1",":","1"," ","A","l","i","c","e">>

AliceOneOnOne == <<"A","l","i","c","e"," ","1",":","1">>

Standup == <<"S","t","a","n","d","u","p">>

Api == <<"A","p","i">>

ApiOps == <<"A","p","i",":"," ","O","p","s">>

ApiOpsDev == <<"a","p","i"," ","o","p","s"," ","d","e","v">>

ApiOpsDevWeb == <<"A","P","I"," ","O","p","s"," ","D","e","v"," "," ","W","e","b">>

ApiOpsDevWebSec == <<"A","p","i"," ","O","p","s"," ","D","e","v"," ","W","e","b"," ","S","e","c">>

ZackApi == <<"Z","a","c","k"," ","/"," ","A","p","i">>

AnnApiCall == <<"A","n","n"," ","A","p","i"," ","c","a","l","l">>

\* the title given to a document without one
UntitledMeeting == <<"U","n","t","i","t","l","e","d"," ","M","e","e","t","i","n","g">>

Titles ==
    { DesignSync, DesignReview, OneOnOneAlice, AliceOneOnOne, Standup, Api, ApiOps,
      ApiOpsDev, ApiOpsDevWeb, ApiOpsDevWebSec, ZackApi, AnnApiCall, UntitledMeeting }

\* process.env.YOUR_NAME || 'Zack'
DefaultName == <<"Z","a","c","k">>

AnnLee == <<"A","n","n"," ","L","e","e">>

Names == { DefaultName, AnnLee }

\* one minute, in ticks of 30 seconds
TicksPerMinute == 2

Minutes(m) == m * TicksPerMinute

-----------------------------------------------------------------------------
(* synthesis/matcher.ts                                                    *)

null == [null |-> TRUE]

FillerWords ==
    { <<"s","y","n","c">>, <<"m","e","e","t","i","n","g">>, <<"c","a","l","l">>,
      <<"c","h","a","t">>, <<"d","i","s","c","u","s","s","i","o","n">>,
      <<"c","h","e","c","k">>, <<"w","e","e","k","l","y">>,
      <<"m","o","n","t","h","l","y">> }

\* the ignoreWords set of calculateTitleSimilarity for the configured name
ignoreWords(name) ==
    LET lowered == toLowerCase(name)
        yourFirstName == SplitWhitespace(lowered)[1]
    IN  {w \in {lowered, yourFirstName} \cup FillerWords : Len(w) > 0}

\* the normalize closure of calculateTitleSimilarity, as the set of its tokens
normalize(name, s) ==
    LET pieces == SplitWhitespace(StripNonWord(toLowerCase(s)))
        long == SelectSeq(pieces, LAMBDA w : Len(w) > 2)
        kept == SelectSeq(long, LAMBDA w : w \notin ignoreWords(name))
    IN  Range(kept)

\* normalize, evaluated once per name and title
NormalizedTitles == [nm \in Names, t \in Titles |-> normalize(nm, t)]

\* the similarity matches / max(size1, size2), kept as the fraction num/den
calculateTitleSimilarity(title1, title2) ==
    LET words1 == NormalizedTitles[yourName, title1]
        words2 == NormalizedTitles[yourName, title2]
        matches == Cardinality({w \in words1 : w \in words2})
        larger == IF Cardinality(words1) >= Cardinality(words2)
                  THEN Cardinality(words1) ELSE Cardinality(words2)
    IN  IF Cardinality(words1) = 0 \/ Cardinality(words2) = 0
        THEN [num |-> 0, den |-> 1]
        ELSE [num |-> matches, den |-> larger]

Abs(x) == IF x < 0 THEN -x ELSE x

\* date-fns differenceInMinutes: the difference in minutes, truncated toward zero
differenceInMinutes(dateLeft, dateRight) ==
    LET diff == dateLeft - dateRight
    IN  IF diff >= 0 THEN diff \div TicksPerMinute ELSE -((-diff) \div TicksPerMinute)

\* TimeBonus with the limits included at the wrong side
TimeBonusInclusive(timeDiff) ==
    IF timeDiff <= 30 THEN 4
    ELSE IF timeDiff <= 120 THEN 3
    ELSE IF timeDiff <= 240 THEN 1
    ELSE 0

\* The time bonus of calculateMatchScore, in tenths
TimeBonus(timeDiff) ==
    IF timeDiff < 30 THEN 4
    ELSE IF timeDiff < 120 THEN 3
    ELSE IF timeDiff < 240 THEN 1
    ELSE 0

\* IEEE-754 doubles: floor((d - exact) * 2^56) for the double d that
\* (matches / larger) * 0.6 + bonus evaluates to, where exact is the rational
\* value of that expression.  Row larger, column matches, then the bonus
\* +0.4, +0.3, +0.1, none.  Two scores with the same exact value compare as
\* their offsets do.
DoubleOffsets ==
    << << <<0, -7, -4, -2>> >>,
       << <<-4, -2, 1, -1>>, <<0, -7, -4, -2>> >>,
       << <<-2, 0, -1, -2>>, <<3, -4, 0, -3>>, <<0, -7, -4, -2>> >>,
       << <<3, -4, 0, -1>>, <<-4, -2, 1, -1>>, <<-2, 0, -5, -4>>, <<0, -7, -4, -2>> >>,
       << <<1, -2, 0, -1>>, <<0, 2, -3, -1>>, <<0, -6, -3, -1>>, <<0, 1, -3, -2>>,
          <<0, -7, -4, -2>> >>,
       << <<0, -3, 0, -1>>, <<-2, 0, -1, -2>>, <<-4, -2, 1, -1>>, <<3, -4, 0, -3>>,
          <<1, 3, -2, 0>>, <<0, -7, -4, -2>> >> >>

BonusColumn(bonus) == CASE bonus = 4 -> 1 [] bonus = 3 -> 2 [] bonus = 1 -> 3 [] OTHER -> 4

DoubleOffset(sim, bonus) == DoubleOffsets[sim.den][sim.num][BonusColumn(bonus)]

\* the score 0 that calculateMatchScore returns below the similarity gate
ZeroScore == [num |-> 0, den |-> 1, dev |-> 0]

\* the double 0.3
AcceptThreshold == [num |-> 3, den |-> 10, dev |-> -1]

\* a > b on doubles
ScoreGt(a, b) ==
    \/ a.num * b.den > b.num * a.den
    \/ a.num * b.den = b.num * a.den /\ a.dev > b.dev

\* BelowGate with the gate at 0.2
BelowGateFifth(sim) == 5 * sim.num < sim.den

\* titleSimilarity < 0.25
BelowGate(sim) == 4 * sim.num < sim.den

calculateMatchScore(event, note) ==
    LET titleSimilarity == calculateTitleSimilarity(event.title, note.title)
        timeDiff == Abs(differenceInMinutes(event.start, note.date))
        bonus == TimeBonus(timeDiff)
    IN  IF BelowGate(titleSimilarity) THEN ZeroScore
        ELSE [num |-> 6 * titleSimilarity.num + bonus * titleSimilarity.den,
              den |-> 10 * titleSimilarity.den,
              dev |-> DoubleOffset(titleSimilarity, bonus)]

\* IsUsed that forgets the used set
IsUsedNever(usedNotes, note) == FALSE

\* usedNotes.has(note.id)
IsUsed(usedNotes, note) == note.id \in usedNotes

\* Improves that lets a later note of equal score replace the best one
ImprovesOnTie(s, bestScore) == ~ScoreGt(bestScore, s) /\ ScoreGt(s, AcceptThreshold)

\* Improves that takes the first note above 0.3 and keeps it
ImprovesFirstFit(s, bestScore) == bestScore = ZeroScore /\ ScoreGt(s, AcceptThreshold)

\* Improves that accepts a score of exactly 0.3
ImprovesAtThreshold(s, bestScore) == ScoreGt(s, bestScore) /\ ~ScoreGt(AcceptThreshold, s)

\* score > bestScore && score > 0.3
Improves(s, bestScore) == ScoreGt(s, bestScore) /\ ScoreGt(s, AcceptThreshold)

\* the inner loop of matchNotesToEvents, from note j on: the best match
RECURSIVE BestMatchFrom(_, _, _, _, _, _)
BestMatchFrom(event, ns, usedNotes, j, bestMatch, bestScore) ==
    IF j > Len(ns) THEN bestMatch
    ELSE IF IsUsed(usedNotes, ns[j])
         THEN BestMatchFrom(event, ns, usedNotes, j + 1, bestMatch, bestScore)
         ELSE LET s == calculateMatchScore(event, ns[j])
              IN  IF Improves(s, bestScore)
                  THEN BestMatchFrom(event, ns, usedNotes, j + 1, ns[j], s)
                  ELSE BestMatchFrom(event, ns, usedNotes, j + 1, bestMatch, bestScore)

\* MatchedMeeting that sets hasNotes whatever was found
MatchedMeetingFlagged(event, bestMatch) ==
    [event |-> event, note |-> bestMatch, hasNotes |-> TRUE]

\* the entry pushed for one event
MatchedMeeting(event, bestMatch) ==
    [event |-> event, note |-> bestMatch, hasNotes |-> bestMatch # null]

\* the outer loop of matchNotesToEvents, from event i on
RECURSIVE MatchFrom(_, _, _, _, _)
MatchFrom(es, ns, i, usedNotes, acc) ==
    IF i > Len(es) THEN acc
    ELSE LET bestMatch == BestMatchFrom(es[i], ns, usedNotes, 1, null, ZeroScore)
             used == IF bestMatch # null THEN usedNotes \cup {bestMatch.id}
                     ELSE usedNotes
         IN  MatchFrom(es, ns, i + 1, used, Append(acc, MatchedMeeting(es[i], bestMatch)))

matchNotesToEvents(es, ns) == MatchFrom(es, ns, 1, {}, <<>>)

-----------------------------------------------------------------------------
(* Inputs of the matcher                                                   *)

\* the start of the events the scorer is tried on
BaseInstant == Minutes(480)

CalendarEvent(id, title, start, isRecurring, myResponseStatus) ==
    [id |-> id, title |-> title, start |-> start, isRecurring |-> isRecurring,
     myResponseStatus |-> myResponseStatus]

GranolaNote(id, title, date) == [id |-> id, title |-> title, date |-> date]

\* distances on both sides of every limit of the time bonus, one tick apart
ScoreOffsets ==
    { 0, Minutes(30) - 1, Minutes(30), 1 - Minutes(30), -Minutes(30),
      Minutes(120) - 1, Minutes(120), Minutes(240) - 1, Minutes(240),
      1 - Minutes(240), -Minutes(240) }

ScoreEvents == { CalendarEvent("e1", t, BaseInstant, FALSE, "accepted") : t \in Titles }

ScoreNotes == { GranolaNote("n1", t, BaseInstant + o) : t \in Titles, o \in ScoreOffsets }

MaxEvents == 2

MaxNotes == 3

SeqsUpTo(S, n) == UNION { [1..k -> S] : k \in 0..n }

MatchEventPool ==
    { CalendarEvent("e1", ApiOps, BaseInstant, FALSE, "accepted"),
      CalendarEvent("e2", ApiOpsDevWeb, BaseInstant, FALSE, "accepted"),
      CalendarEvent("e3", ApiOps, BaseInstant + Minutes(120), FALSE, "accepted") }

MatchNotePool ==
    { GranolaNote(id, t, BaseInstant + d) :
        id \in {"n1", "n2"}, t \in {Api, ApiOpsDev}, d \in {Minutes(120), Minutes(240)} }

-----------------------------------------------------------------------------
(* config.ts                                                               *)

EnvNames ==
    { "SLACK_TOKEN", "SLACK_USER_ID", "NOTION_TOKEN", "NOTION_GRANOLA_DB_ID",
      "NOTION_515_PAGE_ID" }

\* config.slack.enabled decided by the token alone
SlackEnabledByToken == env["SLACK_TOKEN"]

\* config.slack.enabled
SlackEnabled == env["SLACK_TOKEN"] /\ env["SLACK_USER_ID"]

\* config.notion.enabled
NotionEnabled ==
    env["NOTION_TOKEN"] /\ env["NOTION_GRANOLA_DB_ID"] /\ env["NOTION_515_PAGE_ID"]

-----------------------------------------------------------------------------
(* collectors/granola-local.ts                                             *)

\* an optional field: Absent when it is not there, Some(v) when it holds v
Absent == <<>>

Some(v) == <<v>>

ValueOf(field) == field[1]

\* the window getThisWeeksNotes keeps: Monday 00:00 to Friday 23:59:59.999
WeekStart == Minutes(0)

FridayEnd == Minutes(5 * 24 * 60) - 1

\* A text is what JSON.parse makes of it: ok is FALSE when it throws.
JsonText(value) == [ok |-> TRUE, value |-> value]

Garbage == [ok |-> FALSE, value |-> null]

\* the parsed cache: each field Absent or Some
CacheData(cache, state, documents) ==
    [cache |-> cache, state |-> state, documents |-> documents]

RawMeetingData(id, title, created_at) ==
    [id |-> id, title |-> title, created_at |-> created_at]

\* fs.existsSync(getGranolaCachePath())
isGranolaCacheAvailable(file) == file.exists

\* loadGranolaCache: null when the file is missing or reading or parsing throws
loadGranolaCache(file) ==
    IF ~file.exists THEN null
    ELSE IF ~file.readable \/ ~file.text.ok THEN null
    ELSE LET rawData == file.text.value
         IN  IF rawData.cache # Absent
             THEN IF ~ValueOf(rawData.cache).ok THEN null
                  ELSE LET actualData == ValueOf(rawData.cache).value
                       IN  IF actualData.state # Absent THEN ValueOf(actualData.state)
                           ELSE actualData
             ELSE rawData

\* whether loadGranolaCache reports 'Error loading Granola cache'
loadGranolaCacheErrors(file) ==
    /\ file.exists
    /\ \/ ~file.readable
       \/ ~file.text.ok
       \/ file.text.value.cache # Absent /\ ~ValueOf(file.text.value.cache).ok

\* isWithinInterval(meetingDate, {start: weekStart, end: fridayEnd})
isWithinInterval(date, start, end) == start <= date /\ date <= end

\* the note built from one document, or none
NotesOfDocument(doc) ==
    IF doc.created_at = Absent THEN <<>>
    ELSE IF ~isWithinInterval(ValueOf(doc.created_at), WeekStart, FridayEnd) THEN <<>>
    ELSE << GranolaNote(doc.id,
                        IF doc.title = Absent THEN UntitledMeeting ELSE ValueOf(doc.title),
                        ValueOf(doc.created_at)) >>

RECURSIVE CollectNotes(_)
CollectNotes(docs) ==
    IF docs = <<>> THEN <<>>
    ELSE NotesOfDocument(Head(docs)) \o CollectNotes(Tail(docs))

\* one note put into a list sorted by date, behind the notes of the same date
InsertByDate(sorted, note) ==
    LET before == SelectSeq(sorted, LAMBDA n : n.date <= note.date)
        after == SelectSeq(sorted, LAMBDA n : n.date > note.date)
    IN  before \o <<note>> \o after

RECURSIVE SortByDateFrom(_, _)
SortByDateFrom(ns, sorted) ==
    IF ns = <<>> THEN sorted
    ELSE SortByDateFrom(Tail(ns), InsertByDate(sorted, Head(ns)))

\* notes.sort((a, b) => a.date.getTime() - b.date.getTime()), a stable sort
SortByDate(ns) == SortByDateFrom(ns, <<>>)

\* getThisWeeksNotes of the local cache: threw says whether it rejects
getNotesFromLocalCache(file) ==
    LET cacheData == loadGranolaCache(file)
    IN  IF cacheData = null \/ cacheData.documents = Absent
        THEN [threw |-> FALSE, notes |-> <<>>]
        ELSE [threw |-> FALSE,
              notes |-> SortByDate(CollectNotes(ValueOf(cacheData.documents)))]

-----------------------------------------------------------------------------
(* collectors/granola-local.ts and collectors/granola.ts: field extractors *)

\* a node of Granola's structured notes
RawContentNode(type, text, children) == [type |-> type, text |-> text, content |-> children]

RECURSIVE ExtractParts(_), extractText(_)
\* the parts array extractText fills from a content list
ExtractParts(contentList) ==
    IF contentList = <<>> THEN <<>>
    ELSE LET item == Head(contentList)
             pushed ==
                 IF item = null THEN <<>>
                 ELSE IF item.type = "text" /\ item.text # Absent /\ ValueOf(item.text) # <<>>
                      THEN << ValueOf(item.text) >>
                      ELSE IF item.content # Absent
                           THEN << extractText(ValueOf(item.content)) >>
                           ELSE <<>>
         IN  pushed \o ExtractParts(Tail(contentList))

\* the extractText closure: parts.join(' ')
extractText(contentList) == Join(ExtractParts(contentList), <<" ">>)

\* extractStructuredNotes(notesData)
extractStructuredNotes(data) ==
    IF data = null THEN <<>>
    ELSE IF data.content = Absent THEN <<>>
    ELSE extractText(ValueOf(data.content))

ActionLabel ==
    <<"a","c","t","i","o","n",":">>

TodoLabel ==
    <<"t","o","d","o",":">>

FollowUpLabel ==
    <<"f","o","l","l","o","w"," ","u","p",":">>

NextStepLabel ==
    <<"n","e","x","t"," ","s","t","e","p",":">>

\* the four labels of an action item
ActionLabels == { ActionLabel, TodoLabel, FollowUpLabel, NextStepLabel }

\* extractActionItems of the local cache collector: a line is kept when,
\* trimmed, it includes '[ ]' or starts with a label in lower case
extractActionItems(text) ==
    LET lines == SplitLines(text)
        trimmed == [i \in DOMAIN lines |-> trim(lines[i])]
    IN  SelectSeq(trimmed,
            LAMBDA t : \/ Includes(t, <<"[", " ", "]">>)
                       \/ \E label \in ActionLabels : StartsWithAt(toLowerCase(t), 1, label))

\* extractActionItems of the Notion collector: a line is kept when it
\* includes '[ ]' or, in lower case, includes a label; it is pushed trimmed
extractActionItemsNotion(text) ==
    LET lines == SplitLines(text)
        kept == SelectSeq(lines,
                    LAMBDA line : \/ Includes(line, <<"[", " ", "]">>)
                                  \/ \E label \in ActionLabels :
                                        Includes(toLowerCase(line), label))
    IN  [i \in DOMAIN kept |-> trim(kept[i])]

-----------------------------------------------------------------------------
(* The heuristic extractors of the Notion collaborators                    *)

Prioritizing ==
    <<"p","r","i","o","r","i","t","i","z","i","n","g">>

PrioritiesWord ==
    <<"p","r","i","o","r","i","t","i","e","s">>

NextWeek ==
    <<"n","e","x","t"," ","w","e","e","k">>

SummaryWord ==
    <<"s","u","m","m","a","r","y">>

TldrWord ==
    <<"t","l","d","r">>

\* extractPriorities: the line enters the priorities section
EntersPriorities(line) ==
    \E word \in { Prioritizing, PrioritiesWord, NextWeek } : Includes(toLowerCase(line), word)

\* line.replace(/^[bullet\-*]\s*/, '').trim()
StripMarker(line) ==
    IF line # <<>> /\ line[1] \in {"bullet", "-", "*"}
    THEN trim(SubSeq(line, SpaceRunEnd(line, 2) + 1, Len(line)))
    ELSE trim(line)

\* the loop of extractPriorities from line i on
RECURSIVE PrioritiesFrom(_, _, _, _)
PrioritiesFrom(lines, i, inPrioritiesSection, acc) ==
    IF i > Len(lines) THEN acc
    ELSE LET line == lines[i] IN
         IF EntersPriorities(line) THEN PrioritiesFrom(lines, i + 1, TRUE, acc)
         ELSE IF ~inPrioritiesSection THEN PrioritiesFrom(lines, i + 1, FALSE, acc)
         ELSE IF StartsWithAt(line, 1, <<"#">>) THEN acc
         ELSE IF line # <<>> /\ line[1] \in {"bullet", "-", "*"}
              THEN LET priority == StripMarker(line)
                   IN  PrioritiesFrom(lines, i + 1, TRUE,
                           IF priority # <<>> THEN Append(acc, priority) ELSE acc)
              ELSE PrioritiesFrom(lines, i + 1, TRUE, acc)

\* extractPriorities(content)
extractPriorities(text) == PrioritiesFrom(SplitLines(text), 1, FALSE, <<>>)

\* the length extractSummary cuts its result to
SummaryLimit == 500

\* extractSummary: the line enters the summary
EntersSummary(line) ==
    \E word \in { SummaryWord, TldrWord } : Includes(toLowerCase(line), word)

\* the loop of extractSummary from line i on
RECURSIVE SummaryLinesFrom(_, _, _, _)
SummaryLinesFrom(lines, i, inSummary, summaryLines) ==
    IF i > Len(lines) THEN summaryLines
    ELSE LET line == lines[i] IN
         IF EntersSummary(line) THEN SummaryLinesFrom(lines, i + 1, TRUE, summaryLines)
         ELSE IF ~inSummary THEN SummaryLinesFrom(lines, i + 1, FALSE, summaryLines)
         ELSE IF StartsWithAt(line, 1, <<"#">>) \/ line = <<>>
              THEN IF Len(summaryLines) > 0 THEN summaryLines
                   ELSE SummaryLinesFrom(lines, i + 1, TRUE, summaryLines)
              ELSE SummaryLinesFrom(lines, i + 1, TRUE, Append(summaryLines, line))

\* extractSummary(content); Absent is undefined
extractSummary(text) ==
    LET summaryLines == SummaryLinesFrom(SplitLines(text), 1, FALSE, <<>>)
        joined == Join(summaryLines, <<" ">>)
    IN  IF Len(summaryLines) > 0
        THEN Some(SubSeq(joined, 1, Min({Len(joined), SummaryLimit})))
        ELSE Absent

-----------------------------------------------------------------------------
(* collectors/slack.ts                                                     *)

\* an entry of searchResult.messages.matches
SlackMatch(channelId, channelName, ts, text) ==
    [channel |-> [id |-> channelId, name |-> channelName], ts |-> ts, text |-> text]

\* match.channel?.name || 'unknown'
UnknownChannel ==
    <<"u","n","k","n","o","w","n">>

\* new Date() while getActiveChannels runs: a Wednesday noon of the week
Now == Minutes(2 * 24 * 60 + 12 * 60)

\* channelName.startsWith('im-') || channelId.startsWith('D')
IsDirectMessage(channelId, channelName) ==
    StartsWithAt(channelName, 1, <<"i", "m", "-">>) \/ StartsWithAt(channelId, 1, <<"D">>)

\* match.ts ? fromUnixTime(parseFloat(match.ts)) : new Date()
MatchTimestamp(match) == IF match.ts = Absent THEN Now ELSE ValueOf(match.ts)

\* channelMap with the message of the match pushed to its channel
PushMessage(channelMap, channelId, channelName, message) ==
    IF \E k \in DOMAIN channelMap : channelMap[k].channelId = channelId
    THEN [k \in DOMAIN channelMap |->
            IF channelMap[k].channelId = channelId
            THEN [channelMap[k] EXCEPT !.messages = Append(@, message)]
            ELSE channelMap[k]]
    ELSE Append(channelMap,
                [channelId |-> channelId, channelName |-> channelName,
                 messages |-> << message >>])

\* the loop over the matches: channelMap in insertion order
RECURSIVE GroupByChannel(_, _, _)
GroupByChannel(ms, i, channelMap) ==
    IF i > Len(ms) THEN channelMap
    ELSE LET match == ms[i]
             channelName == IF match.channel.name = Absent \/ match.channel.name = Some(<<>>)
                            THEN UnknownChannel ELSE ValueOf(match.channel.name)
             timestamp == MatchTimestamp(match)
         IN  IF match.channel.id = Absent \/ match.channel.id = Some(<<>>)
             THEN GroupByChannel(ms, i + 1, channelMap)
             ELSE IF IsDirectMessage(ValueOf(match.channel.id), channelName)
             THEN GroupByChannel(ms, i + 1, channelMap)
             ELSE IF timestamp < WeekStart \/ timestamp > FridayEnd
             THEN GroupByChannel(ms, i + 1, channelMap)
             ELSE GroupByChannel(ms, i + 1,
                      PushMessage(channelMap, ValueOf(match.channel.id), channelName,
                                  [text |-> match.text, timestamp |-> timestamp]))

\* a channel counts from one message on
IsActiveFromOne(channel) == Len(channel.messages) > 0

\* channel.messages.length > 1
IsActive(channel) == Len(channel.messages) > 1

\* activeChannels.push({...}) without the resolved mentions
SlackChannelActivity(channel) ==
    [channelId |-> channel.channelId, channelName |-> channel.channelName,
     messageCount |-> Len(channel.messages), messages |-> channel.messages]

\* Array.prototype.sort((a, b) => b.messageCount - a.messageCount), stable
RECURSIVE SortByMessageCount(_)
SortByMessageCount(channels) ==
    IF channels = <<>> THEN <<>>
    ELSE LET sorted == SortByMessageCount(SubSeq(channels, 1, Len(channels) - 1))
             last == channels[Len(channels)]
             before == { k \in DOMAIN sorted : sorted[k].messageCount >= last.messageCount }
             at == IF before = {} THEN 0 ELSE Max(before)
         IN  SubSeq(sorted, 1, at) \o << last >> \o SubSeq(sorted, at + 1, Len(sorted))

\* getActiveChannels() on the matches the search returned; the mentions of
\* the channels are left out
getActiveChannels(ms) ==
    LET channelMap == GroupByChannel(ms, 1, <<>>)
        active == SelectSeq(channelMap, IsActive)
    IN  SortByMessageCount([k \in DOMAIN active |-> SlackChannelActivity(active[k])])

-----------------------------------------------------------------------------
(* The blocks of a Notion page: collectors/granola.ts, collectors/previous515.ts,
   output/notion.ts *)

\* a block of a page; payload is the object under the key named by type
Block(type, payload) == [type |-> type, payload |-> payload]

\* the payload of a text block: the plain_text of each of its runs
RichText(runs, checked) == Some([rich_text |-> Some(runs), checked |-> checked])

\* a child page of a page, with the time it was created and its own blocks;
\* accessible is whether notion.pages.retrieve returns it
ChildPage(created_time, children, accessible) ==
    [type |-> "child_page", payload |-> Absent, created_time |-> created_time,
     children |-> children, accessible |-> accessible]

\* block[type]?.rich_text
RichTextOf(block) ==
    IF block.payload = Absent THEN Absent ELSE ValueOf(block.payload).rich_text

\* rich_text.map(t => t.plain_text).join('')
PlainText(block) == Join(ValueOf(RichTextOf(block)), <<>>)

\* block.to_do.checked ? '[x]' : '[ ]'
CheckBox(block) ==
    IF ValueOf(block.payload).checked THEN <<"[", "x", "]">> ELSE <<"[", " ", "]">>

\* the Notion notes collector: what one pass of the loop pushes to textParts
NotesBlockParts(block) ==
    LET text == PlainText(block)
        Pushed(line) == IF text # <<>> THEN << line >> ELSE <<>>
    IN  IF block.type = "paragraph" /\ RichTextOf(block) # Absent THEN Pushed(text)
        ELSE IF block.type = "bulleted_list_item" /\ RichTextOf(block) # Absent
             THEN Pushed(<<"bullet", " ">> \o text)
        ELSE IF block.type = "numbered_list_item" /\ RichTextOf(block) # Absent
             THEN Pushed(<<"-", " ">> \o text)
        ELSE IF block.type = "heading_1" /\ RichTextOf(block) # Absent
             THEN Pushed(<<"#", " ">> \o text)
        ELSE IF block.type = "heading_2" /\ RichTextOf(block) # Absent
             THEN Pushed(<<"#", "#", " ">> \o text)
        ELSE IF block.type = "heading_3" /\ RichTextOf(block) # Absent
             THEN Pushed(<<"#", "#", "#", " ">> \o text)
        ELSE IF block.type = "to_do" /\ RichTextOf(block) # Absent
             THEN Pushed(CheckBox(block) \o <<" ">> \o text)
        ELSE <<>>

\* the Notion notes collector: extractTextFromBlocks(blocks)
RECURSIVE NotesTextParts(_)
NotesTextParts(bs) ==
    IF bs = <<>> THEN <<>> ELSE NotesBlockParts(Head(bs)) \o NotesTextParts(Tail(bs))

extractTextFromBlocksNotes(bs) == Join(NotesTextParts(bs), <<"\n">>)

\* the previous 5:15 collector: the keys of typeMap
TypeMap ==
    { "paragraph", "heading_1", "heading_2", "heading_3", "bulleted_list_item",
      "numbered_list_item", "to_do" }

\* extractBlockText that writes a bulleted item with a dash
extractBlockTextDashForBullet(block) ==
    IF block.type \notin TypeMap \/ RichTextOf(block) = Absent THEN Absent
    ELSE IF PlainText(block) = <<>> THEN Absent
    ELSE IF block.type \in {"bulleted_list_item", "numbered_list_item"}
         THEN Some(<<"-", " ">> \o PlainText(block))
         ELSE Some(PlainText(block))

\* the previous 5:15 collector: extractBlockText(block); Absent is null
extractBlockText(block) ==
    IF block.type \notin TypeMap THEN Absent
    ELSE IF RichTextOf(block) = Absent THEN Absent
    ELSE LET text == PlainText(block)
         IN  IF text = <<>> THEN Absent
             ELSE CASE block.type = "heading_1" -> Some(<<"#", " ">> \o text)
                    [] block.type = "heading_2" -> Some(<<"#", "#", " ">> \o text)
                    [] block.type = "heading_3" -> Some(<<"#", "#", "#", " ">> \o text)
                    [] block.type = "bulleted_list_item" -> Some(<<"bullet", " ">> \o text)
                    [] block.type = "numbered_list_item" -> Some(<<"-", " ">> \o text)
                    [] block.type = "to_do" -> Some(CheckBox(block) \o <<" ">> \o text)
                    [] OTHER -> Some(text)

\* the previous 5:15 collector: extractTextFromBlocks(blocks)
extractTextFromBlocks(bs) ==
    LET texts == [k \in DOMAIN bs |-> extractBlockText(bs[k])]
        textParts == SelectSeq(texts, LAMBDA t : t # Absent)
    IN  Join([k \in DOMAIN textParts |-> ValueOf(textParts[k])], <<"\n">>)

\* the child pages of the 5:15 page that getPrevious515 may take: retrieved,
\* and created before the Monday of the current week
EarlierPages(children, weekStart) ==
    { k \in DOMAIN children :
        /\ children[k].type = "child_page"
        /\ children[k].accessible
        /\ children[k].created_time < weekStart }

\* getPrevious515() on the children of the 5:15 page, in the week that starts
\* at weekStart; the date label of the result is left out
getPrevious515OfPage(children, weekStart) ==
    LET earlier == EarlierPages(children, weekStart)
    IN  IF earlier = {} THEN null
        ELSE LET latest == Max({ children[k].created_time : k \in earlier })
                 mostRecentPage == children[Min({ k \in earlier :
                                                    children[k].created_time = latest })]
                 fullContent == extractTextFromBlocks(mostRecentPage.children)
             IN  [priorities |-> extractPriorities(fullContent),
                  fullContent |-> fullContent]

TldrTag ==
    <<":","t","l","d","r",":">>

NotionWhatIDidHeading ==
    <<"check_mark"," ","W","h","a","t"," ","I"," ","d","i","d">>

NotionThinkingHeading ==
    <<"brain"," ","W","h","a","t"," ","I"," ","a","m"," ","t","h","i","n","k","i","n","g"," ",
      "a","b","o","u","t">>

NotionPrioritiesHeading ==
    <<"crane"," ","W","h","a","t"," ","I"," ","a","m"," ","p","r","i","o","r","i","t","i","z",
      "i","n","g"," ","n","e","x","t"," ","w","e","e","k">>

\* parseRichText(text) for a text without **bold**, @Name or #channel: one run
parseRichText(text) == << text >>

divider == Block("divider", Absent)

heading2(text) == Block("heading_2", RichText(<< text >>, FALSE))

paragraph(text) == Block("paragraph", RichText(parseRichText(text), FALSE))

bulletItem(text) == Block("bulleted_list_item", RichText(parseRichText(text), FALSE))

\* buildNotionBlocks(draft)
buildNotionBlocks(d) ==
    << divider, paragraph(d.date), paragraph(TldrTag), paragraph(d.tldr),
       heading2(NotionWhatIDidHeading) >>
        \o [k \in DOMAIN d.whatIDid |-> bulletItem(d.whatIDid[k])]
        \o << heading2(NotionThinkingHeading), bulletItem(<<>>),
              heading2(NotionPrioritiesHeading) >>
        \o [k \in DOMAIN d.priorities |-> bulletItem(d.priorities[k])]

\* writeDraftToNotion(draft): notion.blocks.children.append to the 5:15 page
writeDraftToNotion(children, d) == children \o buildNotionBlocks(d)

-----------------------------------------------------------------------------
(* What the collaborators may hand back                                    *)

ScenarioEvents ==
    << CalendarEvent("s1", DesignSync, BaseInstant, FALSE, "accepted"),
       CalendarEvent("s2", OneOnOneAlice, BaseInstant + Minutes(180), FALSE, "accepted"),
       CalendarEvent("s3", Standup, BaseInstant + Minutes(240), TRUE, "accepted") >>

MixedEvents ==
    << CalendarEvent("m1", ApiOps, BaseInstant, FALSE, "declined"),
       CalendarEvent("m2", ApiOpsDev, BaseInstant + Minutes(120), FALSE, "unknown"),
       CalendarEvent("m3", Api, BaseInstant + Minutes(120), TRUE, "unknown"),
       CalendarEvent("m4", ApiOpsDevWeb, BaseInstant + Minutes(180), FALSE, "tentative"),
       CalendarEvent("m5", Api, BaseInstant + Minutes(240), FALSE, "needsAction"),
       CalendarEvent("m6", ApiOps, BaseInstant + Minutes(300), FALSE, "accepted") >>

CalendarResults == { <<>>, ScenarioEvents, MixedEvents }

ScenarioNotes ==
    << GranolaNote("d1", DesignReview, BaseInstant),
       GranolaNote("d2", AliceOneOnOne, BaseInstant + Minutes(190)) >>

NotionNoteResults ==
    { <<>>, ScenarioNotes, << GranolaNote("p1", ApiOpsDev, BaseInstant + Minutes(120)) >> }

\* the scenario's documents, stored latest first, with one of last week and
\* one without a date
ScenarioDocuments ==
    << RawMeetingData("d2", Some(AliceOneOnOne), Some(BaseInstant + Minutes(190))),
       RawMeetingData("d0", Some(DesignReview), Some(WeekStart - Minutes(60))),
       RawMeetingData("d1", Some(DesignReview), Some(BaseInstant)),
       RawMeetingData("d3", Some(Standup), Absent) >>

OtherDocuments ==
    << RawMeetingData("o1", Absent, Some(BaseInstant + Minutes(300))),
       RawMeetingData("o2", Some(ApiOps), Some(BaseInstant + Minutes(300))),
       RawMeetingData("o3", Some(ApiOpsDev), Some(BaseInstant + Minutes(120))) >>

CacheFile(exists, readable, text) == [exists |-> exists, readable |-> readable, text |-> text]

CacheFiles ==
    { CacheFile(FALSE, FALSE, Garbage),
      CacheFile(TRUE, FALSE, Garbage),
      CacheFile(TRUE, TRUE, Garbage),
      CacheFile(TRUE, TRUE, JsonText(CacheData(Absent, Absent, Absent))),
      CacheFile(TRUE, TRUE, JsonText(CacheData(Absent, Absent, Some(ScenarioDocuments)))),
      CacheFile(TRUE, TRUE, JsonText(CacheData(Some(Garbage), Absent, Absent))),
      CacheFile(TRUE, TRUE,
          JsonText(CacheData(
              Some(JsonText(CacheData(Absent, Absent, Some(OtherDocuments)))),
              Absent, Absent))),
      CacheFile(TRUE, TRUE,
          JsonText(CacheData(
              Some(JsonText(CacheData(
                  Absent, Some(CacheData(Absent, Absent, Some(ScenarioDocuments))),
                  Absent))),
              Absent, Absent))) }

SlackResults == { <<>>, << [channelName |-> "eng", messageCount |-> 2] >> }

\* what the 5:15 page holds for getPrevious515: the listing fails, or it
\* yields no report of an earlier week, or one with these priorities
Previous515Worlds ==
    { [fails |-> TRUE, found |-> FALSE, priorities |-> <<>>],
      [fails |-> FALSE, found |-> FALSE, priorities |-> <<>>],
      [fails |-> FALSE, found |-> TRUE, priorities |-> <<>>],
      [fails |-> FALSE, found |-> TRUE, priorities |-> << <<"S", "h", "i", "p", " ", "Z">> >>] }

-----------------------------------------------------------------------------
(* collectors/previous515.ts                                               *)

\* getPrevious515: every failure is caught inside and gives null
getPrevious515(world) ==
    IF world.fails \/ ~world.found
    THEN [threw |-> FALSE, value |-> null]
    ELSE [threw |-> FALSE, value |-> [priorities |-> world.priorities]]

-----------------------------------------------------------------------------
(* synthesis/draft.ts and index.ts                                         *)

Call(what) == [op |-> "call", what |-> what]

Return(what) == [op |-> "return", what |-> what]

Throw(what) == [op |-> "throw", what |-> what]

\* a console.error of a collaborator that caught its own failure
Error(what) == [op |-> "error", what |-> what]

\* a step of synthesizeDraft that calls no collaborator
Ran(what) == [op |-> "run", what |-> what]

HasCall(what) == \E i \in DOMAIN calls : calls[i] = Call(what)

Threw(what) == \E i \in DOMAIN calls : calls[i] = Throw(what)

Returned(what) == \E i \in DOMAIN calls : calls[i] = Return(what)

\* NonRecurring that drops nothing
NonRecurringKeepsAll(evs) == evs

\* allEvents.filter(e => !e.isRecurring)
NonRecurring(evs) == SelectSeq(evs, LAMBDA e : ~e.isRecurring)

\* Confirmed that also keeps the tentative events
ConfirmedOrTentative(evs) ==
    SelectSeq(evs, LAMBDA e : e.myResponseStatus \in {"accepted", "unknown", "tentative"})

\* nonRecurring.filter(e => accepted or unknown)
Confirmed(evs) ==
    SelectSeq(evs, LAMBDA e : e.myResponseStatus = "accepted" \/ e.myResponseStatus = "unknown")

\* matchedMeetings.filter(m => m.hasNotes).length
withNotes(ms) == Len(SelectSeq(ms, LAMBDA m : m.hasNotes))

\* matchedMeetings.filter(m => !m.hasNotes).length
withoutNotes(ms) == Len(SelectSeq(ms, LAMBDA m : ~m.hasNotes))

\* the titles of the meetings that have notes
meetingsWithNotesTitles(ms) ==
    LET with == SelectSeq(ms, LAMBDA m : m.hasNotes)
    IN  [i \in DOMAIN with |-> with[i].event.title]

\* the meetingsWithoutNotes of parseDraftResponse
meetingsWithoutNotes(ms) ==
    LET without == SelectSeq(ms, LAMBDA m : ~m.hasNotes)
    IN  [i \in DOMAIN without |-> without[i].event.title]

-----------------------------------------------------------------------------
(* synthesis/draft.ts: parseDraftResponse, output/markdown.ts              *)

TldrLabel ==
    <<"T","L","D","R">>

WhatIDidLabel ==
    <<"W","h","a","t"," ","I"," ","d","i","d">>

PrioritiesLabel ==
    <<"p","r","i","o","r","i","t","i","z","i","n","g"," ","n","e","x","t"," ","w","e","e","k">>

\* tldrMatch?.[1]?.trim() || 'Draft your TLDR here.'
TldrPlaceholder ==
    <<"D","r","a","f","t"," ","y","o","u","r"," ","T","L","D","R"," ","h","e","r","e",".">>

\* whatIAmThinkingAbout: '<!-- Your reflections here -->'
ReflectionPlaceholder ==
    <<"<","!","-","-"," ","Y","o","u","r"," ","r","e","f","l","e","c","t","i","o","n","s"," ",
      "h","e","r","e"," ","-","-",">">>

\* the positions where /label\s*\n+/i matches: the label, then a run of
\* whitespace with a line break in it
SectionStarts(s, label) ==
    { p \in DOMAIN s :
        /\ MatchesIgnoreCaseAt(s, p, label)
        /\ \E k \in (p + Len(label))..SpaceRunEnd(s, p + Len(label)) : s[k] = "\n" }

\* where the lazy group ([\s\S]*?) stops: before the first ### at or after
\* position c, or at the end of the text
SectionEndToEndOfText(s, c) == Len(s)

SectionEnd(s, c) ==
    LET marks == { q \in c..Len(s) : StartsWithAt(s, q, <<"#","#","#">>) }
    IN  IF marks = {} THEN Len(s) ELSE Min(marks) - 1

\* response.match(/label\s*\n+([\s\S]*?)(?=###|$)/i)?.[1]: the group of the
\* leftmost match. The greedy \s* gives back up to the last line break of
\* the run, which \n+ takes, so the group starts right behind it.
SectionCapture(s, label) ==
    LET starts == SectionStarts(s, label)
    IN  IF starts = {} THEN Absent
        ELSE LET a == Min(starts) + Len(label)
                 b == SpaceRunEnd(s, a)
                 c == Max({ k \in a..b : s[k] = "\n" }) + 1
             IN  Some(SubSeq(s, c, SectionEnd(s, c)))

\* line.trim().startsWith('-') || line.trim().startsWith('bullet')
IsBulletLine(line) ==
    LET t == trim(line) IN t # <<>> /\ t[1] \in {"-", "bullet"}

\* line.replace(/^[\s\-bullet]+/, '').trim()
StripBullet(line) ==
    LET rest == { i \in DOMAIN line : ~(IsSpace(line[i]) \/ line[i] \in {"-", "bullet"}) }
    IN  IF rest = {} THEN <<>> ELSE trim(SubSeq(line, Min(rest), Len(line)))

\* ?.split('\n').filter(bullet line).map(strip).filter(Boolean) || []
BulletItems(capture) ==
    IF capture = Absent THEN <<>>
    ELSE LET lines == SplitLines(ValueOf(capture))
             bullets == SelectSeq(lines, IsBulletLine)
             stripped == [i \in DOMAIN bullets |-> StripBullet(bullets[i])]
         IN  SelectSeq(stripped, LAMBDA item : item # <<>>)

\* the trimmed group, whatever it is
TldrUnguarded(capture) == IF capture = Absent THEN <<>> ELSE trim(ValueOf(capture))

\* tldrMatch?.[1]?.trim() || 'Draft your TLDR here.'
TldrOrPlaceholder(capture) ==
    IF capture = Absent \/ trim(ValueOf(capture)) = <<>>
    THEN TldrPlaceholder
    ELSE trim(ValueOf(capture))

\* parseDraftResponse(response, today, matchedMeetings)
parseDraftResponse(text, today, ms) ==
    [date |-> today,
     tldr |-> TldrOrPlaceholder(SectionCapture(text, TldrLabel)),
     whatIDid |-> BulletItems(SectionCapture(text, WhatIDidLabel)),
     whatIAmThinkingAbout |-> ReflectionPlaceholder,
     priorities |-> BulletItems(SectionCapture(text, PrioritiesLabel)),
     meetingsWithoutNotes |-> meetingsWithoutNotes(ms)]

MarkdownTldrHeading ==
    <<"#","#"," ",":","t","l","d","r",":"," ","T","L","D","R">>

MarkdownWhatIDidHeading ==
    <<"#","#"," ","check_mark"," ","W","h","a","t"," ","I"," ","d","i","d">>

MarkdownMissingNotesHeading ==
    <<">"," ","warning"," ","*","*","M","e","e","t","i","n","g","s"," ","w","i","t","h","o","u",
      "t"," ","G","r","a","n","o","l","a"," ","n","o","t","e","s"," ","-"," ","p","l","e","a",
      "s","e"," ","f","i","l","l"," ","i","n",":","*","*">>

MarkdownThinkingHeading ==
    <<"#","#"," ","brain"," ","W","h","a","t"," ","I"," ","a","m"," ","t","h","i","n","k","i",
      "n","g"," ","a","b","o","u","t">>

MarkdownPrioritiesHeading ==
    <<"#","#"," ","crane"," ","W","h","a","t"," ","I"," ","a","m"," ","p","r","i","o","r","i",
      "t","i","z","i","n","g"," ","n","e","x","t"," ","w","e","e","k">>

\* formatDraftAsMarkdown(draft)
formatDraftAsMarkdown(d) ==
    JoinLines(
        << <<"#", " ">> \o d.date, <<>>, MarkdownTldrHeading, <<>>, d.tldr, <<>>,
           MarkdownWhatIDidHeading, <<>> >>
        \o [i \in DOMAIN d.whatIDid |-> <<"-", " ">> \o d.whatIDid[i]]
        \o (IF Len(d.meetingsWithoutNotes) > 0
            THEN << <<>>, MarkdownMissingNotesHeading >>
                 \o [i \in DOMAIN d.meetingsWithoutNotes |->
                        <<">", " ", "-", " ">> \o d.meetingsWithoutNotes[i]
                        \o <<" ","-"," ","[","A","d","d"," ","d","e","t","a","i","l","s","]">>]
            ELSE <<>>)
        \o << <<>>, MarkdownThinkingHeading, <<>>, ReflectionPlaceholder, <<>>,
              MarkdownPrioritiesHeading, <<>> >>
        \o [i \in DOMAIN d.priorities |-> <<"-", " ">> \o d.priorities[i]]
        \o << <<>> >>)

\* format(new Date(), 'MMMM d, yyyy') on the day of the run
Today ==
    <<"N","o","v","e","m","b","e","r"," ","3",","," ","2","0","2","6">>

\* Pieces of replies of the generation service

TldrPlain ==
    <<"#","#","#"," ","T","L","D","R","\n","D","i","d"," ","s","t","u","f","f","\n">>

TldrDecorated ==
    <<"#","#","#"," ",":","t","l","d","r",":"," ","T","L","D","R","\n","\n"," "," ","D","i","d",
      " ","s","t","u","f","f"," "," ","\n","\n">>

TldrBlank ==
    <<"#","#","#"," ","T","L","D","R","\n"," ","\n">>

TldrRecap ==
    <<"#","#","#"," ","T","L","D","R","\n","R","e","c","a","p"," ","o","f"," ","w","h","a","t",
      " ","I"," ","d","i","d","\n">>

TldrInline ==
    <<"T","L","D","R",":"," ","D","i","d"," ","s","t","u","f","f","\n">>

WhatIDidPlain ==
    <<"#","#","#"," ","W","h","a","t"," ","I"," ","d","i","d","\n","-"," ","S","h","i","p","p",
      "e","d"," ","X","\n","-"," ","F","i","x","e","d"," ","Y","\n">>

WhatIDidMessy ==
    <<"#","#","#"," ","check_mark"," ","w","h","a","t"," ","i"," ","d","i","d","\n","\n"," ",
      " ","bullet"," ","S","h","i","p","p","e","d"," ","X","\n","n","o","t","e","s","\n","-",
      "\n"," ","-"," ","F","i","x","e","d"," ","Y"," ","\n">>

WhatIDidSecondLevel ==
    <<"#","#"," ","W","h","a","t"," ","I"," ","d","i","d","\n","-"," ","S","h","i","p","p","e",
      "d"," ","X","\n">>

ThinkingFilled ==
    <<"#","#","#"," ","brain"," ","W","h","a","t"," ","I"," ","a","m"," ","t","h","i","n","k",
      "i","n","g"," ","a","b","o","u","t","\n","D","e","e","p"," ","t","h","o","u","g","h","t",
      "s","\n">>

PrioritiesPlain ==
    <<"#","#","#"," ","p","r","i","o","r","i","t","i","z","i","n","g"," ","n","e","x","t"," ",
      "w","e","e","k","\n","-"," ","S","h","i","p"," ","Z">>

PrioritiesDecorated ==
    <<"#","#","#"," ","crane"," ","W","h","a","t"," ","I"," ","a","m"," ","p","r","i","o","r",
      "i","t","i","z","i","n","g"," ","n","e","x","t"," ","w","e","e","k","\n","-"," ","S","h",
      "i","p"," ","Z","\n","-"," "," ","\n","bullet"," ","P","l","a","n"," ","Q","\n">>

PrioritiesSecondLevel ==
    <<"#","#"," ","p","r","i","o","r","i","t","i","z","i","n","g"," ","n","e","x","t"," ","w",
      "e","e","k","\n","-"," ","S","h","i","p"," ","Z","\n">>

DidStuff ==
    <<"D","i","d"," ","s","t","u","f","f">>

RecapOfWhatIDid ==
    <<"R","e","c","a","p"," ","o","f"," ","w","h","a","t"," ","I"," ","d","i","d">>

ShippedX ==
    <<"S","h","i","p","p","e","d"," ","X">>

FixedY ==
    <<"F","i","x","e","d"," ","Y">>

ShipZ ==
    <<"S","h","i","p"," ","Z">>

PlanQ ==
    <<"P","l","a","n"," ","Q">>

ExampleReply ==
    <<"#","#","#"," ","T","L","D","R","\n","D","i","d"," ","s","t","u","f","f","\n","#","#","#",
      " ","W","h","a","t"," ","I"," ","d","i","d","\n","-"," ","S","h","i","p","p","e","d"," ",
      "X","\n","-"," ","F","i","x","e","d"," ","Y","\n","#","#","#"," ","p","r","i","o","r","i",
      "t","i","z","i","n","g"," ","n","e","x","t"," ","w","e","e","k","\n","-"," ","S","h","i",
      "p"," ","Z">>

\* the replies of the generation service in a run
GeneratedTexts == { ExampleReply, <<>> }

-----------------------------------------------------------------------------
(* synthesis/draft.ts: synthesizeDraft, and index.ts                       *)

\* the first line of the previous-week section
LastWeeksPriorities ==
    <<"L","a","s","t"," ","w","e","e","k","'","s"," ","p","r","i","o","r","i","t","i","e","s",
      ":","\n">>

NoPrevious515Found ==
    <<"N","o"," ","p","r","e","v","i","o","u","s"," ","5",":","1","5"," ","f","o","u","n","d">>

\* previous515.priorities.map(p => `- ${p}`).join('\n')
PriorityBullets(ps) == Join([i \in DOMAIN ps |-> <<"-", " ">> \o ps[i]], <<"\n">>)

\* Step 6: previousContext, the previous-week section of the prompt
previousContext ==
    IF previous515 # null
    THEN LastWeeksPriorities \o PriorityBullets(previous515.priorities)
    ELSE NoPrevious515Found

Running == -1

InitRun ==
    /\ env \in [EnvNames -> BOOLEAN]
    /\ cacheFile \in CacheFiles
    /\ pc = "step1"
    /\ calls = <<>>
    /\ allEvents = <<>>
    /\ calendarEvents = <<>>
    /\ slackActivity = <<>>
    /\ granolaNotes = <<>>
    /\ previous515 = null
    /\ matchedMeetings = <<>>
    /\ draft = null
    /\ outputLocation = "none"
    /\ exitCode = Running

\* the values of the run's variables while only the matcher is exercised
RunIdle ==
    /\ env = [n \in EnvNames |-> FALSE]
    /\ cacheFile = CacheFile(FALSE, FALSE, Garbage)
    /\ pc = "idle"
    /\ calls = <<>>
    /\ allEvents = <<>>
    /\ calendarEvents = <<>>
    /\ slackActivity = <<>>
    /\ granolaNotes = <<>>
    /\ previous515 = null
    /\ matchedMeetings = <<>>
    /\ draft = null
    /\ outputLocation = "none"
    /\ exitCode = Running

\* the values of the matcher harness's variables during a run
MatcherIdle ==
    /\ yourName = DefaultName
    /\ events = <<>>
    /\ notes = <<>>
    /\ score = ZeroScore
    /\ matched = <<>>
    /\ mpc = "idle"

\* the values of the collaborator harness's variables while it is not used
CollabIdle ==
    /\ searchMatches = <<>>
    /\ activeChannels = <<>>
    /\ blocks = <<>>
    /\ notesBlocksText = <<>>
    /\ previousBlocksText = <<>>
    /\ page = <<>>
    /\ written = null
    /\ found = null
    /\ reordered = <<>>
    /\ matchedReordered = <<>>
    /\ cpc = "idle"

\* the values of the extractor harness's variables while it is not used
ExtractIdle ==
    /\ notesData = null
    /\ notesText = <<>>
    /\ content = <<>>
    /\ actionItems = <<>>
    /\ notionActionItems = <<>>
    /\ xpc = "idle"
    /\ priorities = <<>>
    /\ summary = Absent

\* the values of the parser harness's variables while it is not used
PureIdle ==
    /\ parts = <<>>
    /\ response = <<>>
    /\ meetings = <<>>
    /\ report = null
    /\ markdown = null
    /\ reparsed = null
    /\ ppc = "idle"
    /\ ExtractIdle
    /\ CollabIdle

\* Step 1: await getThisWeeksMeetings()
Calendar_Call ==
    /\ pc = "step1"
    /\ calls' = Append(calls, Call("getThisWeeksMeetings"))
    /\ pc' = "await_calendar"
    /\ UNCHANGED <<matcherVars, pureVars, env, cacheFile, allEvents, calendarEvents, slackActivity,
                   granolaNotes, previous515, matchedMeetings, draft, outputLocation,
                   exitCode>>

Calendar_Return ==
    /\ pc = "await_calendar"
    /\ \E fetched \in CalendarResults :
          /\ allEvents' = fetched
          /\ calendarEvents' = Confirmed(NonRecurring(fetched))
    /\ calls' = Append(calls, Return("getThisWeeksMeetings"))
    /\ pc' = "step2"
    /\ UNCHANGED <<matcherVars, pureVars, env, cacheFile, slackActivity, granolaNotes, previous515,
                   matchedMeetings, draft, outputLocation, exitCode>>

\* the call rejects and step 1 is started over
Calendar_ThrowRetry ==
    /\ pc = "await_calendar"
    /\ calls' = Append(calls, Throw("getThisWeeksMeetings"))
    /\ pc' = "step1"
    /\ UNCHANGED <<matcherVars, pureVars, env, cacheFile, allEvents, calendarEvents, slackActivity,
                   granolaNotes, previous515, matchedMeetings, draft, outputLocation,
                   exitCode>>

\* the call rejects with nothing around it to catch the failure
Calendar_ThrowUncaught ==
    /\ pc = "await_calendar"
    /\ calls' = Append(calls, Throw("getThisWeeksMeetings"))
    /\ pc' = "exited"
    /\ exitCode' = 1
    /\ UNCHANGED <<matcherVars, pureVars, env, cacheFile, allEvents, calendarEvents, slackActivity,
                   granolaNotes, previous515, matchedMeetings, draft, outputLocation>>

Calendar_Throw ==
    /\ pc = "await_calendar"
    /\ calls' = Append(calls, Throw("getThisWeeksMeetings"))
    /\ pc' = "step2"
    /\ UNCHANGED <<matcherVars, pureVars, env, cacheFile, allEvents, calendarEvents, slackActivity,
                   granolaNotes, previous515, matchedMeetings, draft, outputLocation,
                   exitCode>>

\* Step 2: config.slack.enabled is false
Slack_Skip ==
    /\ pc = "step2"
    /\ ~SlackEnabled
    /\ pc' = "step3"
    /\ UNCHANGED <<matcherVars, pureVars, env, cacheFile, calls, allEvents, calendarEvents,
                   slackActivity, granolaNotes, previous515, matchedMeetings, draft,
                   outputLocation, exitCode>>

\* Step 2: await getActiveChannels()
Slack_Call ==
    /\ pc = "step2"
    /\ SlackEnabled
    /\ calls' = Append(calls, Call("getActiveChannels"))
    /\ pc' = "await_slack"
    /\ UNCHANGED <<matcherVars, pureVars, env, cacheFile, allEvents, calendarEvents, slackActivity,
                   granolaNotes, previous515, matchedMeetings, draft, outputLocation,
                   exitCode>>

Slack_Return ==
    /\ pc = "await_slack"
    /\ slackActivity' \in SlackResults
    /\ calls' = Append(calls, Return("getActiveChannels"))
    /\ pc' = "step3"
    /\ UNCHANGED <<matcherVars, pureVars, env, cacheFile, allEvents, calendarEvents, granolaNotes,
                   previous515, matchedMeetings, draft, outputLocation, exitCode>>

Slack_Throw ==
    /\ pc = "await_slack"
    /\ calls' = Append(calls, Throw("getActiveChannels"))
    /\ pc' = "step3"
    /\ UNCHANGED <<matcherVars, pureVars, env, cacheFile, allEvents, calendarEvents, slackActivity,
                   granolaNotes, previous515, matchedMeetings, draft, outputLocation,
                   exitCode>>

\* Step 3: isGranolaCacheAvailable(), then await getNotesFromLocalCache()
Notes_LocalCall ==
    /\ pc = "step3"
    /\ isGranolaCacheAvailable(cacheFile)
    /\ calls' = Append(calls, Call("getNotesFromLocalCache"))
    /\ pc' = "await_local"
    /\ UNCHANGED <<matcherVars, pureVars, env, cacheFile, allEvents, calendarEvents, slackActivity,
                   granolaNotes, previous515, matchedMeetings, draft, outputLocation,
                   exitCode>>

\* the log of a local fetch that resolved
LocalEnded(threw) ==
    (IF loadGranolaCacheErrors(cacheFile) THEN <<Error("loadGranolaCache")>> ELSE <<>>)
        \o <<IF threw THEN Throw("getNotesFromLocalCache")
             ELSE Return("getNotesFromLocalCache")>>

\* Step 3: the local fetch resolves; when it rejects and Notion is
\* configured the catch block goes on to await getNotesFromNotion()
Notes_LocalResolve ==
    /\ pc = "await_local"
    /\ LET r == getNotesFromLocalCache(cacheFile)
       IN  IF r.threw
           THEN /\ UNCHANGED granolaNotes
                /\ IF NotionEnabled
                   THEN /\ calls' = calls \o LocalEnded(TRUE) \o <<Call("getNotesFromNotion")>>
                        /\ pc' = "await_notion_notes"
                   ELSE /\ calls' = calls \o LocalEnded(TRUE)
                        /\ pc' = "step4"
           ELSE /\ granolaNotes' = r.notes
                /\ calls' = calls \o LocalEnded(FALSE)
                /\ pc' = "step4"
    /\ UNCHANGED <<matcherVars, pureVars, env, cacheFile, allEvents, calendarEvents, slackActivity,
                   previous515, matchedMeetings, draft, outputLocation, exitCode>>

\* whether step 3 goes straight to Notion, were Notion asked whenever configured
NotionNotesFirstAlways == NotionEnabled

\* whether step 3 goes straight to Notion: else if (config.notion.enabled)
NotionNotesFirst == ~isGranolaCacheAvailable(cacheFile) /\ NotionEnabled

\* Step 3: no local cache, await getNotesFromNotion()
Notes_NotionCall ==
    /\ pc = "step3"
    /\ NotionNotesFirst
    /\ calls' = Append(calls, Call("getNotesFromNotion"))
    /\ pc' = "await_notion_notes"
    /\ UNCHANGED <<matcherVars, pureVars, env, cacheFile, allEvents, calendarEvents, slackActivity,
                   granolaNotes, previous515, matchedMeetings, draft, outputLocation,
                   exitCode>>

Notes_NotionReturn ==
    /\ pc = "await_notion_notes"
    /\ granolaNotes' \in NotionNoteResults
    /\ calls' = Append(calls, Return("getNotesFromNotion"))
    /\ pc' = "step4"
    /\ UNCHANGED <<matcherVars, pureVars, env, cacheFile, allEvents, calendarEvents, slackActivity,
                   previous515, matchedMeetings, draft, outputLocation, exitCode>>

Notes_NotionThrow ==
    /\ pc = "await_notion_notes"
    /\ calls' = Append(calls, Throw("getNotesFromNotion"))
    /\ pc' = "step4"
    /\ UNCHANGED <<matcherVars, pureVars, env, cacheFile, allEvents, calendarEvents, slackActivity,
                   granolaNotes, previous515, matchedMeetings, draft, outputLocation,
                   exitCode>>

\* Step 3: no local cache and Notion not configured
Notes_Skip ==
    /\ pc = "step3"
    /\ ~isGranolaCacheAvailable(cacheFile)
    /\ ~NotionEnabled
    /\ pc' = "step4"
    /\ UNCHANGED <<matcherVars, pureVars, env, cacheFile, calls, allEvents, calendarEvents,
                   slackActivity, granolaNotes, previous515, matchedMeetings, draft,
                   outputLocation, exitCode>>

\* Step 4: config.notion.enabled is false
Previous_Skip ==
    /\ pc = "step4"
    /\ ~NotionEnabled
    /\ pc' = "step5"
    /\ UNCHANGED <<matcherVars, pureVars, env, cacheFile, calls, allEvents, calendarEvents,
                   slackActivity, granolaNotes, previous515, matchedMeetings, draft,
                   outputLocation, exitCode>>

\* Step 4: await getPrevious515()
Previous_Call ==
    /\ pc = "step4"
    /\ NotionEnabled
    /\ calls' = Append(calls, Call("getPrevious515"))
    /\ pc' = "await_previous"
    /\ UNCHANGED <<matcherVars, pureVars, env, cacheFile, allEvents, calendarEvents, slackActivity,
                   granolaNotes, previous515, matchedMeetings, draft, outputLocation,
                   exitCode>>

Previous_Resolve ==
    /\ pc = "await_previous"
    /\ \E world \in Previous515Worlds :
          LET r == getPrevious515(world)
              noted == IF world.fails THEN <<Error("getPrevious515")>> ELSE <<>>
          IN  IF r.threw
              THEN /\ UNCHANGED previous515
                   /\ calls' = calls \o noted \o <<Throw("getPrevious515")>>
              ELSE /\ previous515' = r.value
                   /\ calls' = calls \o noted \o <<Return("getPrevious515")>>
    /\ pc' = "step5"
    /\ UNCHANGED <<matcherVars, pureVars, env, cacheFile, allEvents, calendarEvents, slackActivity,
                   granolaNotes, matchedMeetings, draft, outputLocation, exitCode>>

\* Step 5: matchNotesToEvents(calendarEvents, granolaNotes)
Correlate ==
    /\ pc = "step5"
    /\ matchedMeetings' = matchNotesToEvents(calendarEvents, granolaNotes)
    /\ calls' = Append(calls, Ran("matchNotesToEvents"))
    /\ pc' = "step6"
    /\ UNCHANGED <<matcherVars, pureVars, env, cacheFile, allEvents, calendarEvents, slackActivity,
                   granolaNotes, previous515, draft, outputLocation, exitCode>>

\* the generation call is issued without awaiting the prior-report fetch
Generate_CallEarly ==
    /\ pc \in {"step4", "step6"}
    /\ calls' = Append(calls, Call("generateText"))
    /\ pc' = "await_generate"
    /\ UNCHANGED <<matcherVars, pureVars, env, cacheFile, allEvents, calendarEvents, slackActivity,
                   granolaNotes, previous515, matchedMeetings, draft, outputLocation,
                   exitCode>>

\* Step 6: await generateText(...)
Generate_Call ==
    /\ pc = "step6"
    /\ calls' = Append(calls, Call("generateText"))
    /\ pc' = "await_generate"
    /\ UNCHANGED <<matcherVars, pureVars, env, cacheFile, allEvents, calendarEvents, slackActivity,
                   granolaNotes, previous515, matchedMeetings, draft, outputLocation,
                   exitCode>>

\* the reply is parsed and synthesizeDraft returns the draft to main
Generate_Return ==
    /\ pc = "await_generate"
    /\ \E text \in GeneratedTexts : draft' = parseDraftResponse(text, Today, matchedMeetings)
    /\ calls' = Append(calls, Return("generateText"))
    /\ pc' = "output"
    /\ UNCHANGED <<matcherVars, pureVars, env, cacheFile, allEvents, calendarEvents, slackActivity,
                   granolaNotes, previous515, matchedMeetings, outputLocation, exitCode>>

\* the rejection is swallowed and main goes on to write the output
Generate_ThrowSwallowed ==
    /\ pc = "await_generate"
    /\ calls' = Append(calls, Throw("generateText"))
    /\ pc' = "output"
    /\ UNCHANGED <<matcherVars, pureVars, env, cacheFile, allEvents, calendarEvents, slackActivity,
                   granolaNotes, previous515, matchedMeetings, draft, outputLocation,
                   exitCode>>

\* the rejection leaves synthesizeDraft; main's catch calls process.exit(1)
Generate_Throw ==
    /\ pc = "await_generate"
    /\ calls' = Append(calls, Throw("generateText"))
    /\ pc' = "exited"
    /\ exitCode' = 1
    /\ UNCHANGED <<matcherVars, pureVars, env, cacheFile, allEvents, calendarEvents, slackActivity,
                   granolaNotes, previous515, matchedMeetings, draft, outputLocation>>

\* main: await writeDraftToNotion(draft)
Output_NotionCall ==
    /\ pc = "output"
    /\ NotionEnabled
    /\ calls' = Append(calls, Call("writeDraftToNotion"))
    /\ pc' = "await_notion_write"
    /\ UNCHANGED <<matcherVars, pureVars, env, cacheFile, allEvents, calendarEvents, slackActivity,
                   granolaNotes, previous515, matchedMeetings, draft, outputLocation,
                   exitCode>>

Output_NotionReturn ==
    /\ pc = "await_notion_write"
    /\ calls' = Append(calls, Return("writeDraftToNotion"))
    /\ outputLocation' = "notion"
    /\ pc' = "done"
    /\ exitCode' = 0
    /\ UNCHANGED <<matcherVars, pureVars, env, cacheFile, allEvents, calendarEvents, slackActivity,
                   granolaNotes, previous515, matchedMeetings, draft>>

\* the rejection of the renderer is ignored and the run ends as a success
Output_NotionThrowIgnored ==
    /\ pc = "await_notion_write"
    /\ calls' = Append(calls, Throw("writeDraftToNotion"))
    /\ pc' = "done"
    /\ exitCode' = 0
    /\ UNCHANGED <<matcherVars, pureVars, env, cacheFile, allEvents, calendarEvents, slackActivity,
                   granolaNotes, previous515, matchedMeetings, draft, outputLocation>>

Output_NotionThrow ==
    /\ pc = "await_notion_write"
    /\ calls' = Append(calls, Throw("writeDraftToNotion"))
    /\ pc' = "exited"
    /\ exitCode' = 1
    /\ UNCHANGED <<matcherVars, pureVars, env, cacheFile, allEvents, calendarEvents, slackActivity,
                   granolaNotes, previous515, matchedMeetings, draft, outputLocation>>

\* main: writeDraftToMarkdown(draft) writes the file
Output_Markdown ==
    /\ pc = "output"
    /\ ~NotionEnabled
    /\ calls' = calls \o <<Call("writeDraftToMarkdown"), Return("writeDraftToMarkdown")>>
    /\ outputLocation' = "markdown"
    /\ pc' = "done"
    /\ exitCode' = 0
    /\ UNCHANGED <<matcherVars, pureVars, env, cacheFile, allEvents, calendarEvents, slackActivity,
                   granolaNotes, previous515, matchedMeetings, draft>>

\* main: writeDraftToMarkdown(draft) throws (mkdirSync or writeFileSync fails)
Output_MarkdownThrow ==
    /\ pc = "output"
    /\ ~NotionEnabled
    /\ calls' = calls \o <<Call("writeDraftToMarkdown"), Throw("writeDraftToMarkdown")>>
    /\ pc' = "exited"
    /\ exitCode' = 1
    /\ UNCHANGED <<matcherVars, pureVars, env, cacheFile, allEvents, calendarEvents, slackActivity,
                   granolaNotes, previous515, matchedMeetings, draft, outputLocation>>

-----------------------------------------------------------------------------
(* The matcher on its own: one event and one note, then lists              *)

InitScore ==
    /\ yourName \in Names
    /\ \E e \in ScoreEvents : events = <<e>>
    /\ \E n \in ScoreNotes : notes = <<n>>
    /\ score = ZeroScore
    /\ matched = <<>>
    /\ mpc = "score"
    /\ RunIdle
    /\ PureIdle

InitMatch ==
    /\ yourName = DefaultName
    /\ events \in SeqsUpTo(MatchEventPool, MaxEvents)
    /\ notes \in SeqsUpTo(MatchNotePool, MaxNotes)
    /\ score = ZeroScore
    /\ matched = <<>>
    /\ mpc = "match"
    /\ RunIdle
    /\ PureIdle

\* calculateMatchScore applied to the first event and the first note
CalcScore ==
    /\ mpc = "score"
    /\ score' = calculateMatchScore(events[1], notes[1])
    /\ mpc' = "match"
    /\ UNCHANGED <<yourName, events, notes, matched, runVars, pureVars>>

\* matchNotesToEvents applied to the two lists
Match ==
    /\ mpc = "match"
    /\ matched' = matchNotesToEvents(events, notes)
    /\ mpc' = "done"
    /\ UNCHANGED <<yourName, events, notes, score, runVars, pureVars>>

NextScore == CalcScore \/ Match

NextMatch == Match

Init == MatcherIdle /\ InitRun /\ PureIdle

Next ==
    \/ Calendar_Call \/ Calendar_Return \/ Calendar_Throw
    \/ Slack_Skip \/ Slack_Call \/ Slack_Return \/ Slack_Throw
    \/ Notes_LocalCall \/ Notes_LocalResolve
    \/ Notes_NotionCall \/ Notes_NotionReturn \/ Notes_NotionThrow \/ Notes_Skip
    \/ Previous_Skip \/ Previous_Call \/ Previous_Resolve
    \/ Correlate
    \/ Generate_Call \/ Generate_Return \/ Generate_Throw
    \/ Output_NotionCall \/ Output_NotionReturn \/ Output_NotionThrow
    \/ Output_Markdown \/ Output_MarkdownThrow

Spec == Init /\ [][Next]_vars

\* every step of a run that can be taken is taken: an awaited call returns
\* or fails, and the code between two calls runs on
SpecLive == Spec /\ WF_vars(Next)

SpecScore == InitScore /\ [][NextScore]_vars

SpecMatch == InitMatch /\ [][NextMatch]_vars

-----------------------------------------------------------------------------
(* The response parser and the markdown renderer on their own              *)

\* what each piece is: the section it opens, whether a ### header opens it,
\* and the sections whose label, followed by a line break, its body holds
Pieces ==
    [ TldrPlain |-> [kind |-> "tldr", text |-> TldrPlain, headed |-> TRUE, strays |-> {}],
      TldrDecorated |->
          [kind |-> "tldr", text |-> TldrDecorated, headed |-> TRUE, strays |-> {}],
      TldrBlank |-> [kind |-> "tldr", text |-> TldrBlank, headed |-> TRUE, strays |-> {}],
      TldrRecap |->
          [kind |-> "tldr", text |-> TldrRecap, headed |-> TRUE, strays |-> {"did"}],
      TldrInline |-> [kind |-> "tldr", text |-> TldrInline, headed |-> FALSE, strays |-> {}],
      WhatIDidPlain |->
          [kind |-> "did", text |-> WhatIDidPlain, headed |-> TRUE, strays |-> {}],
      WhatIDidMessy |->
          [kind |-> "did", text |-> WhatIDidMessy, headed |-> TRUE, strays |-> {}],
      WhatIDidSecondLevel |->
          [kind |-> "did", text |-> WhatIDidSecondLevel, headed |-> FALSE, strays |-> {}],
      ThinkingFilled |->
          [kind |-> "think", text |-> ThinkingFilled, headed |-> TRUE, strays |-> {}],
      PrioritiesPlain |->
          [kind |-> "pri", text |-> PrioritiesPlain, headed |-> TRUE, strays |-> {}],
      PrioritiesDecorated |->
          [kind |-> "pri", text |-> PrioritiesDecorated, headed |-> TRUE, strays |-> {}],
      PrioritiesSecondLevel |->
          [kind |-> "pri", text |-> PrioritiesSecondLevel, headed |-> FALSE, strays |-> {}] ]

PieceNames == DOMAIN Pieces

\* the orders the sections of a reply come in
SectionOrders ==
    { <<"tldr", "did", "think", "pri">>, <<"did", "pri", "tldr", "think">>,
      <<"pri", "think", "did", "tldr">> }

\* for every section one of its pieces, or "none"
SectionChoices ==
    { ch \in [{"tldr", "did", "think", "pri"} -> PieceNames \cup {"none"}] :
        \A k \in DOMAIN ch : ch[k] = "none" \/ Pieces[ch[k]].kind = k }

\* the replies: sequences of pieces
Replies ==
    { SelectSeq([i \in 1..4 |-> ch[o[i]]], LAMBDA p : p # "none") :
        o \in SectionOrders, ch \in SectionChoices }

RECURSIVE TextOf(_)
TextOf(ps) == IF ps = <<>> THEN <<>> ELSE Pieces[Head(ps)].text \o TextOf(Tail(ps))

\* the correlation results the parser is given
ParseMeetings ==
    { <<>>,
      << MatchedMeeting(ScenarioEvents[1], ScenarioNotes[1]),
         MatchedMeeting(ScenarioEvents[2], null) >>,
      << MatchedMeeting(MixedEvents[2], null),
         MatchedMeeting(ScenarioEvents[1], ScenarioNotes[1]),
         MatchedMeeting(MixedEvents[6], null) >> }

InitParse ==
    /\ parts \in Replies
    /\ response = TextOf(parts)
    /\ meetings \in ParseMeetings
    /\ report = null
    /\ markdown = null
    /\ reparsed = null
    /\ ppc = "parse"
    /\ ExtractIdle
    /\ CollabIdle
    /\ MatcherIdle
    /\ RunIdle

\* parseDraftResponse(text, today, matchedMeetings)
Parse ==
    /\ ppc = "parse"
    /\ report' = parseDraftResponse(response, Today, meetings)
    /\ ppc' = "render"
    /\ UNCHANGED <<parts, response, meetings, markdown, reparsed, extractVars, fieldVars, collabVars, matcherVars, runVars>>

\* formatDraftAsMarkdown(draft)
Render ==
    /\ ppc = "render"
    /\ markdown' = formatDraftAsMarkdown(report)
    /\ ppc' = "reparse"
    /\ UNCHANGED <<parts, response, meetings, report, reparsed, extractVars, fieldVars, collabVars, matcherVars, runVars>>

\* the rendering is given to parseDraftResponse as the reply
Reparse ==
    /\ ppc = "reparse"
    /\ reparsed' = parseDraftResponse(markdown, Today, meetings)
    /\ ppc' = "done"
    /\ UNCHANGED <<parts, response, meetings, report, markdown, extractVars, fieldVars, collabVars, matcherVars, runVars>>

NextParse == Parse \/ Render \/ Reparse

SpecParse == InitParse /\ [][NextParse]_vars

-----------------------------------------------------------------------------
(* The field extractors on their own                                       *)

\* the most items of a content list, and the most lines of a body
MaxItems == 2

TextLeaf(t) == RawContentNode("text", Some(t), Absent)

Container(children) == RawContentNode("paragraph", Absent, Some(children))

\* a chain of five containers with one text leaf at the bottom
DeepLeaf ==
    Container(<< Container(<< Container(<< Container(<< Container(<<
        TextLeaf(<<"c">>) >>) >>) >>) >>) >>)

\* the nodes the content lists are made of: leaves, a leaf with an empty
\* text, a null entry, containers with leaves, with no children, with a
\* leafless container only, without a content field, and mixed
ContentNodes ==
    { TextLeaf(<<"a">>), TextLeaf(<<"b">>), TextLeaf(<<>>), null,
      Container(<< TextLeaf(<<"a">>), TextLeaf(<<"b">>) >>),
      Container(<<>>),
      Container(<< Container(<<>>) >>),
      RawContentNode("paragraph", Absent, Absent),
      Container(<< TextLeaf(<<"a">>), Container(<<>>), TextLeaf(<<"b">>) >>),
      DeepLeaf }

NotesDatas ==
    { null, [content |-> Absent] }
        \cup { [content |-> Some(list)] : list \in SeqsUpTo(ContentNodes, MaxItems) }

LineCheckbox ==
    <<"-"," ","["," ","]"," ","s","h","i","p"," ","d","o","c","s">>

LineRandom ==
    <<"r","a","n","d","o","m"," ","l","i","n","e">>

LineTodoIndented ==
    <<" "," ","T","O","D","O",":"," ","c","a","l","l"," ","B","o"," ">>

LineActionCapital ==
    <<"A","c","t","i","o","n",":"," ","s","e","n","d"," ","m","e","m","o">>

LineTodoInMiddle ==
    <<"s","e","e"," ","t","o","d","o",":"," ","l","i","s","t">>

LineFollowUp ==
    <<"f","o","l","l","o","w"," ","u","p",":"," ","b","u","d","g","e","t">>

LineNextStep ==
    <<"N","e","x","t"," ","S","t","e","p",":"," ","h","i","r","e">>

LineActionItem ==
    <<"n","o"," ","a","c","t","i","o","n"," ","i","t","e","m">>

LineBoxInMiddle ==
    <<"d","o","n","e"," ","["," ","]"," ","o","p","e","n">>

BodyLines ==
    { LineCheckbox, LineRandom, LineTodoIndented, LineActionCapital, LineTodoInMiddle,
      LineFollowUp, LineNextStep, LineActionItem, LineBoxInMiddle, <<>> }

\* the bodies: up to MaxItems + 1 lines joined by line breaks
Bodies == { Join(ls, <<"\n">>) : ls \in SeqsUpTo(BodyLines, MaxItems + 1) }

InitNotes ==
    /\ notesData \in NotesDatas
    /\ notesText = <<>>
    /\ content = <<>>
    /\ actionItems = <<>>
    /\ notionActionItems = <<>>
    /\ xpc = "notes"
    /\ priorities = <<>>
    /\ summary = Absent
    /\ ppc = "idle" /\ parts = <<>> /\ response = <<>> /\ meetings = <<>>
    /\ report = null /\ markdown = null /\ reparsed = null
    /\ CollabIdle
    /\ MatcherIdle
    /\ RunIdle

\* extractStructuredNotes(docData.notes)
ExtractNotes ==
    /\ xpc = "notes"
    /\ notesText' = extractStructuredNotes(notesData)
    /\ xpc' = "done"
    /\ UNCHANGED <<notesData, content, actionItems, notionActionItems, parserVars,
                   fieldVars, collabVars, matcherVars, runVars>>

NextNotes == ExtractNotes

SpecNotes == InitNotes /\ [][NextNotes]_vars

InitActions ==
    /\ content \in Bodies
    /\ actionItems = <<>>
    /\ notionActionItems = <<>>
    /\ notesData = null
    /\ notesText = <<>>
    /\ xpc = "local"
    /\ priorities = <<>>
    /\ summary = Absent
    /\ ppc = "idle" /\ parts = <<>> /\ response = <<>> /\ meetings = <<>>
    /\ report = null /\ markdown = null /\ reparsed = null
    /\ CollabIdle
    /\ MatcherIdle
    /\ RunIdle

\* extractActionItems(content) of the local cache collector
ExtractActionsLocal ==
    /\ xpc = "local"
    /\ actionItems' = extractActionItems(content)
    /\ xpc' = "notion"
    /\ UNCHANGED <<notesData, notesText, content, notionActionItems, parserVars,
                   fieldVars, collabVars, matcherVars, runVars>>

\* extractActionItems(content) of the Notion collector
ExtractActionsNotion ==
    /\ xpc = "notion"
    /\ notionActionItems' = extractActionItemsNotion(content)
    /\ xpc' = "done"
    /\ UNCHANGED <<notesData, notesText, content, actionItems, parserVars, fieldVars,
                   collabVars, matcherVars, runVars>>

NextActions == ExtractActionsLocal \/ ExtractActionsNotion

SpecActions == InitActions /\ [][NextActions]_vars

-----------------------------------------------------------------------------
(* The heuristic extractors of the Notion collaborators on their own       *)

LinePrioritiesHeading ==
    <<"#","#"," ","W","h","a","t"," ","I","'","m"," ","p","r","i","o","r","i","t","i","z","i",
      "n","g"," ","n","e","x","t"," ","w","e","e","k">>

LineShipZ ==
    <<"-"," ","S","h","i","p"," ","Z">>

LinePlanQ ==
    <<"bullet"," ","P","l","a","n"," ","Q">>

LineHire ==
    <<"*","H","i","r","e">>

LineSetPriorities ==
    <<"-"," ","S","e","t"," ","p","r","i","o","r","i","t","i","e","s"," ","f","o","r"," ","Q",
      "3">>

LineNotesHeading ==
    <<"#","#"," ","N","o","t","e","s">>

LineEmptyBullet ==
    <<"-"," ">>

LineSummaryHeading ==
    <<"#","#"," ","S","u","m","m","a","r","y">>

LineWeShipped ==
    <<"W","e"," ","s","h","i","p","p","e","d">>

LineSummaryWasGood ==
    <<"T","h","e"," ","s","u","m","m","a","r","y"," ","w","a","s"," ","g","o","o","d">>

LineIndentedBullet ==
    <<" "," ","-"," ","i","n","d","e","n","t","e","d">>

\* a line longer than half of SummaryLimit
LineLong == [i \in 1..(SummaryLimit \div 2 + 1) |-> "x"]

FieldLines ==
    { LinePrioritiesHeading, LineShipZ, LinePlanQ, LineHire, LineSetPriorities,
      LineNotesHeading, LineEmptyBullet, LineSummaryHeading, LineWeShipped,
      LineSummaryWasGood, LineIndentedBullet, LineLong, <<>> }

\* the texts: up to MaxItems + 1 lines joined by line breaks
FieldTexts == { Join(ls, <<"\n">>) : ls \in SeqsUpTo(FieldLines, MaxItems + 1) }

InitFields ==
    /\ content \in FieldTexts
    /\ priorities = <<>>
    /\ summary = Absent
    /\ xpc = "priorities"
    /\ notesData = null /\ notesText = <<>> /\ actionItems = <<>> /\ notionActionItems = <<>>
    /\ ppc = "idle" /\ parts = <<>> /\ response = <<>> /\ meetings = <<>>
    /\ report = null /\ markdown = null /\ reparsed = null
    /\ CollabIdle
    /\ MatcherIdle
    /\ RunIdle

\* extractPriorities(fullContent)
ExtractPriorities ==
    /\ xpc = "priorities"
    /\ priorities' = extractPriorities(content)
    /\ xpc' = "summary"
    /\ UNCHANGED <<notesData, notesText, content, actionItems, notionActionItems, summary,
                   parserVars, collabVars, matcherVars, runVars>>

\* extractSummary(content)
ExtractSummary ==
    /\ xpc = "summary"
    /\ summary' = extractSummary(content)
    /\ xpc' = "done"
    /\ UNCHANGED <<notesData, notesText, content, actionItems, notionActionItems, priorities,
                   parserVars, collabVars, matcherVars, runVars>>

NextFields == ExtractPriorities \/ ExtractSummary

SpecFields == InitFields /\ [][NextFields]_vars

-----------------------------------------------------------------------------
(* getActiveChannels on its own                                            *)

\* the most matches of a search result
MaxMatches == 5

\* the matches: two channels at the two ends of the window, messages just
\* outside the window, direct messages by id and by name, a match without
\* channel, and one without ts
MatchPool ==
    { SlackMatch(Some(<<"C", "1">>), Some(<<"e", "n", "g">>), Some(WeekStart), "a"),
      SlackMatch(Some(<<"C", "2">>), Some(<<"o", "p", "s">>), Some(FridayEnd), "b"),
      SlackMatch(Some(<<"C", "1">>), Some(<<"e", "n", "g">>), Some(WeekStart - 1), "c"),
      SlackMatch(Some(<<"C", "2">>), Some(<<"o", "p", "s">>), Some(FridayEnd + 1), "d"),
      SlackMatch(Some(<<"D", "1">>), Some(<<"b", "o", "b">>), Some(WeekStart), "e"),
      SlackMatch(Some(<<"C", "3">>), Some(<<"i", "m", "-", "a", "n", "n">>), Some(WeekStart), "f"),
      SlackMatch(Absent, Absent, Some(WeekStart), "g"),
      SlackMatch(Some(<<"C", "4">>), Absent, Absent, "h") }

InitChannels ==
    /\ searchMatches \in SeqsUpTo(MatchPool, MaxMatches)
    /\ activeChannels = <<>>
    /\ cpc = "channels"
    /\ blocks = <<>> /\ notesBlocksText = <<>> /\ previousBlocksText = <<>>
    /\ page = <<>> /\ written = null /\ found = null
    /\ reordered = <<>> /\ matchedReordered = <<>>
    /\ parts = <<>> /\ response = <<>> /\ meetings = <<>> /\ report = null
    /\ markdown = null /\ reparsed = null /\ ppc = "idle"
    /\ ExtractIdle
    /\ MatcherIdle
    /\ RunIdle

\* slackActivity = await getActiveChannels()
GetActiveChannels ==
    /\ cpc = "channels"
    /\ activeChannels' = getActiveChannels(searchMatches)
    /\ cpc' = "done"
    /\ UNCHANGED <<searchMatches, blocks, notesBlocksText, previousBlocksText, page, written, found,
                   reordered, matchedReordered, parserVars, extractVars, fieldVars,
                   matcherVars, runVars>>

NextChannels == GetActiveChannels

SpecChannels == InitChannels /\ [][NextChannels]_vars

-----------------------------------------------------------------------------
(* matchNotesToEvents on two orders of the same notes                      *)

\* notes of three identities
ReorderNotePool ==
    { GranolaNote(id, t, BaseInstant + d) :
        id \in {"n1", "n2", "n3"}, t \in {Api, ApiOpsDev}, d \in {Minutes(120), Minutes(240)} }

\* the lists of notes of distinct identities
DistinctNotes ==
    { ns \in SeqsUpTo(ReorderNotePool, MaxNotes) :
        \A i, j \in DOMAIN ns : i # j => ns[i].id # ns[j].id }

\* the orders of a list
Orders(ns) ==
    { [i \in DOMAIN ns |-> ns[p[i]]] :
        p \in { q \in [DOMAIN ns -> DOMAIN ns] : \A i, j \in DOMAIN ns : i # j => q[i] # q[j] } }

InitReorder ==
    /\ yourName = DefaultName
    /\ events \in SeqsUpTo(MatchEventPool, MaxEvents)
    /\ notes \in DistinctNotes
    /\ score = ZeroScore
    /\ matched = <<>>
    /\ mpc = "match"
    /\ reordered \in Orders(notes)
    /\ matchedReordered = <<>>
    /\ cpc = "reorder"
    /\ searchMatches = <<>> /\ activeChannels = <<>>
    /\ blocks = <<>> /\ notesBlocksText = <<>> /\ previousBlocksText = <<>>
    /\ page = <<>> /\ written = null /\ found = null
    /\ parts = <<>> /\ response = <<>> /\ meetings = <<>> /\ report = null
    /\ markdown = null /\ reparsed = null /\ ppc = "idle"
    /\ ExtractIdle
    /\ RunIdle

\* matchNotesToEvents applied to the events and the other order of the notes
MatchReordered ==
    /\ mpc = "done"
    /\ cpc = "reorder"
    /\ matchedReordered' = matchNotesToEvents(events, reordered)
    /\ cpc' = "done"
    /\ UNCHANGED <<searchMatches, activeChannels, blocks, notesBlocksText, previousBlocksText,
                   page, written, found, reordered, parserVars, extractVars, fieldVars,
                   matcherVars, runVars>>

NextReorder == Match \/ MatchReordered

SpecReorder == InitReorder /\ [][NextReorder]_vars

-----------------------------------------------------------------------------
(* The two extractTextFromBlocks on the same blocks                        *)

MaxBlocks == 3

\* blocks of every kind the renderers tell apart, with and without text
BlockPool ==
    { Block("paragraph", RichText(<< <<"a">> >>, FALSE)),
      Block("paragraph", RichText(<< <<"a">>, <<"b">> >>, FALSE)),
      Block("paragraph", RichText(<<>>, FALSE)),
      Block("paragraph", Some([rich_text |-> Absent, checked |-> FALSE])),
      Block("heading_1", RichText(<< <<"a">> >>, FALSE)),
      Block("heading_2", RichText(<< <<"a">> >>, FALSE)),
      Block("heading_3", RichText(<< <<"a">> >>, FALSE)),
      Block("bulleted_list_item", RichText(<< <<"a">> >>, FALSE)),
      bulletItem(<<>>),
      Block("numbered_list_item", RichText(<< <<"a">> >>, FALSE)),
      Block("to_do", RichText(<< <<"a">> >>, TRUE)),
      Block("to_do", RichText(<< <<"a">> >>, FALSE)),
      Block("image", RichText(<< <<"a">> >>, FALSE)),
      divider }

InitBlocks ==
    /\ blocks \in SeqsUpTo(BlockPool, MaxBlocks)
    /\ notesBlocksText = <<>>
    /\ previousBlocksText = <<>>
    /\ cpc = "blocks"
    /\ searchMatches = <<>> /\ activeChannels = <<>>
    /\ page = <<>> /\ written = null /\ found = null
    /\ reordered = <<>> /\ matchedReordered = <<>>
    /\ parts = <<>> /\ response = <<>> /\ meetings = <<>> /\ report = null
    /\ markdown = null /\ reparsed = null /\ ppc = "idle"
    /\ ExtractIdle
    /\ MatcherIdle
    /\ RunIdle

\* the Notion notes collector renders the blocks of a note's page
ExtractNotesText ==
    /\ cpc = "blocks"
    /\ notesBlocksText' = extractTextFromBlocksNotes(blocks)
    /\ cpc' = "rendered"
    /\ UNCHANGED <<searchMatches, activeChannels, blocks, previousBlocksText, page, written,
                   found, reordered, matchedReordered, parserVars, extractVars, fieldVars,
                   matcherVars, runVars>>

\* the previous 5:15 collector renders the same blocks
ExtractPreviousText ==
    /\ cpc = "rendered"
    /\ previousBlocksText' = extractTextFromBlocks(blocks)
    /\ cpc' = "done"
    /\ UNCHANGED <<searchMatches, activeChannels, blocks, notesBlocksText, page, written,
                   found, reordered, matchedReordered, parserVars, extractVars, fieldVars,
                   matcherVars, runVars>>

NextBlocks == ExtractNotesText \/ ExtractPreviousText

SpecBlocks == InitBlocks /\ [][NextBlocks]_vars

-----------------------------------------------------------------------------
(* A draft written to the 5:15 page, and the previous 5:15 a week later    *)

\* the drafts a run may write
DraftPool ==
    { [date |-> Today, tldr |-> DidStuff, whatIDid |-> did,
       whatIAmThinkingAbout |-> ReflectionPlaceholder, priorities |-> ps,
       meetingsWithoutNotes |-> <<>>] :
        did \in {<<>>, << ShippedX >>}, ps \in SeqsUpTo({ShipZ, PlanQ}, 2) }

OneWeek == Minutes(7 * 24 * 60)

\* a 5:15 kept as a page of its own under the 5:15 page
OlderReportBlocks == << heading2(NotionPrioritiesHeading), bulletItem(FixedY) >>

\* what the 5:15 page may hold before the run
PagePool ==
    { <<>>,
      << paragraph(DidStuff) >>,
      buildNotionBlocks([date |-> Today, tldr |-> DidStuff, whatIDid |-> <<>>,
                         whatIAmThinkingAbout |-> ReflectionPlaceholder,
                         priorities |-> << FixedY >>, meetingsWithoutNotes |-> <<>>]),
      << ChildPage(WeekStart - OneWeek, OlderReportBlocks, TRUE) >>,
      << ChildPage(WeekStart - OneWeek, OlderReportBlocks, FALSE) >> }

InitPublish ==
    /\ page \in PagePool
    /\ written \in DraftPool
    /\ found = null
    /\ cpc = "write"
    /\ searchMatches = <<>> /\ activeChannels = <<>>
    /\ blocks = <<>> /\ notesBlocksText = <<>> /\ previousBlocksText = <<>>
    /\ reordered = <<>> /\ matchedReordered = <<>>
    /\ parts = <<>> /\ response = <<>> /\ meetings = <<>> /\ report = null
    /\ markdown = null /\ reparsed = null /\ ppc = "idle"
    /\ ExtractIdle
    /\ MatcherIdle
    /\ RunIdle

\* a run of this week: await writeDraftToNotion(draft)
WriteDraftToNotion ==
    /\ cpc = "write"
    /\ page' = writeDraftToNotion(page, written)
    /\ cpc' = "written"
    /\ UNCHANGED <<searchMatches, activeChannels, blocks, notesBlocksText, previousBlocksText,
                   written, found, reordered, matchedReordered, parserVars, extractVars,
                   fieldVars, matcherVars, runVars>>

\* a run of the week after: previous515 = await getPrevious515()
GetPrevious515NextWeek ==
    /\ cpc = "written"
    /\ found' = getPrevious515OfPage(page, WeekStart + OneWeek)
    /\ cpc' = "done"
    /\ UNCHANGED <<searchMatches, activeChannels, blocks, notesBlocksText, previousBlocksText,
                   page, written, reordered, matchedReordered, parserVars, extractVars,
                   fieldVars, matcherVars, runVars>>

NextPublish == WriteDraftToNotion \/ GetPrevious515NextWeek

SpecPublish == InitPublish /\ [][NextPublish]_vars

-----------------------------------------------------------------------------
(* Properties of the matcher                                               *)

\* the identities attached to the entries before entry i
UsedBefore(i) == { matched[k].note.id : k \in { k \in 1..(i - 1) : matched[k].note # null } }

\* the notes event i may still take: unused before i, score above 0.3
Candidates(i) ==
    { j \in DOMAIN notes :
        /\ notes[j].id \notin UsedBefore(i)
        /\ ScoreGt(calculateMatchScore(events[i], notes[j]), AcceptThreshold) }

\* the candidates of event i no other candidate outscores
TopCandidates(i) ==
    { j \in Candidates(i) :
        \A k \in Candidates(i) :
            ~ScoreGt(calculateMatchScore(events[i], notes[k]),
                     calculateMatchScore(events[i], notes[j])) }

\* C1: whatever the lists (duplicate titles, times and note identities
\* included), no note identity is attached to two entries of the result, and
\* every entry carries either no note or one note of the notes list.
C1_NoNoteAttachedTwice ==
    mpc = "done" =>
        /\ \A i, j \in DOMAIN matched :
              (i # j /\ matched[i].note # null /\ matched[j].note # null)
                  => matched[i].note.id # matched[j].note.id
        /\ \A i \in DOMAIN matched :
              matched[i].note = null \/ matched[i].note \in Range(notes)

\* C1 witness: two notes of the list share an identity and two entries of
\* the result carry a note
C1_Witness ==
    /\ mpc = "done"
    /\ \E i, j \in DOMAIN notes : i # j /\ notes[i].id = notes[j].id
    /\ \E i, j \in DOMAIN matched :
          i # j /\ matched[i].note # null /\ matched[j].note # null

\* C2: events are served in input order; each gets the highest scoring note
\* among those no earlier event took, if that score is above 0.3, the
\* earliest such note of the list on a tie, and otherwise no note.
C2_GreedyBestUnusedNote ==
    mpc = "done" =>
        \A i \in DOMAIN matched :
            IF Candidates(i) = {}
            THEN matched[i].note = null /\ matched[i].hasNotes = FALSE
            ELSE matched[i].note = notes[Min(TopCandidates(i))]

\* C2 witness: the second event would have scored best with a note the first
\* event took, takes another one, and two of its candidates tie at the top
C2_Witness ==
    /\ mpc = "done"
    /\ Len(matched) = 2
    /\ matched[2].note # null
    /\ \E j \in DOMAIN notes :
          /\ notes[j].id \in UsedBefore(2)
          /\ ScoreGt(calculateMatchScore(events[2], notes[j]),
                     calculateMatchScore(events[2], matched[2].note))
    /\ Cardinality(TopCandidates(2)) > 1

\* C3: the result has one entry per event, entry i carries event i, and
\* hasNotes is true exactly when a note is attached.
C3_OneEntryPerEventInOrder ==
    mpc = "done" =>
        /\ Len(matched) = Len(events)
        /\ \A i \in DOMAIN matched :
              /\ matched[i].event = events[i]
              /\ matched[i].hasNotes = (matched[i].note # null)

\* C3 witness: two different events, the first without a note, the second
\* with one
C3_Witness ==
    /\ mpc = "done"
    /\ Len(matched) = 2
    /\ events[1] # events[2]
    /\ matched[1].note = null /\ ~matched[1].hasNotes
    /\ matched[2].note # null /\ matched[2].hasNotes

\* the similarity of the pair the scorer is tried on
PairSimilarity == calculateTitleSimilarity(events[1].title, notes[1].title)

\* the minutes between the event start and the note date of that pair
PairMinutes == Abs(events[1].start - notes[1].date) \div TicksPerMinute

\* C4: whenever the title similarity is below 0.25 the score is 0, whatever
\* the time distance, and the note is not attached to the event.
C4_GateBelowQuarter ==
    (mpc # "score" /\ 4 * PairSimilarity.num < PairSimilarity.den) =>
        /\ score = ZeroScore
        /\ mpc = "done" => matched[1].note = null

\* C4 witness: the titles share a token, the similarity is below 0.25, and
\* the note date is the event start
C4_Witness ==
    /\ mpc = "done"
    /\ PairSimilarity.num > 0
    /\ 4 * PairSimilarity.num < PairSimilarity.den
    /\ events[1].start = notes[1].date

\* the bonus, in tenths, the claim gives for d minutes
ClaimedBonus(d) ==
    CASE d < 30 -> 4
      [] 30 <= d /\ d < 120 -> 3
      [] 120 <= d /\ d < 240 -> 1
      [] d >= 240 -> 0

\* C5: from similarity 0.25 on the score is similarity * 0.6 plus the bonus
\* of the distance d in minutes (the computed double lies within 2^-53 of that
\* value), and the similarity is common / max(size1, size2), 0 when a token
\* set is empty.
C5_ScoreFormula ==
    mpc # "score" =>
        LET words1 == normalize(yourName, events[1].title)
            words2 == normalize(yourName, notes[1].title)
            sizes == {Cardinality(words1), Cardinality(words2)}
            larger == CHOOSE x \in sizes : \A y \in sizes : x >= y
        IN  /\ IF words1 = {} \/ words2 = {}
               THEN PairSimilarity.num = 0
               ELSE PairSimilarity.num * larger
                        = Cardinality(words1 \cap words2) * PairSimilarity.den
            /\ 4 * PairSimilarity.num >= PairSimilarity.den =>
                  /\ score.num * 10 * PairSimilarity.den
                        = (6 * PairSimilarity.num
                             + ClaimedBonus(PairMinutes) * PairSimilarity.den) * score.den
                  /\ score.dev \in -8..8

\* C5 witness: the gate is passed with a similarity under 1 and the distance
\* is exactly 120 minutes
C5_Witness ==
    /\ mpc = "match"
    /\ 4 * PairSimilarity.num >= PairSimilarity.den
    /\ PairSimilarity.num < PairSimilarity.den
    /\ PairMinutes = 120
    /\ Abs(events[1].start - notes[1].date) = Minutes(120)

\* C6: a note is attached exactly when the combined score, title part plus
\* time bonus, is above 0.3; a similarity of at most 0.5 at 240 minutes or
\* more is rejected although it passes the gate, and a similarity of 0.25
\* under 120 minutes is accepted.
C6_ThresholdOnCombinedScore ==
    mpc = "done" =>
        LET passes == 4 * PairSimilarity.num >= PairSimilarity.den
            combinedAbove ==
                6 * PairSimilarity.num + ClaimedBonus(PairMinutes) * PairSimilarity.den
                    > 3 * PairSimilarity.den
        IN  /\ (matched[1].note # null) = (passes /\ combinedAbove)
            /\ (passes /\ 2 * PairSimilarity.num <= PairSimilarity.den
                  /\ PairMinutes >= 240) => matched[1].note = null
            /\ (4 * PairSimilarity.num = PairSimilarity.den /\ PairMinutes < 120)
                  => matched[1].note = notes[1]

\* C6 witness: similarity 0.5, above 0.3 on its own, 240 minutes away: the
\* combined score is 0.3 and the note is not attached
C6_Witness ==
    /\ mpc = "done"
    /\ 2 * PairSimilarity.num = PairSimilarity.den
    /\ PairMinutes >= 240
    /\ matched[1].note = null

-----------------------------------------------------------------------------
(* Properties of a run                                                     *)

Correlated == \E i \in DOMAIN calls : calls[i] = Ran("matchNotesToEvents")

\* step 3 is over
NotesStepOver ==
    pc \in { "step4", "await_previous", "step5", "step6", "await_generate", "output",
             "await_notion_write", "done", "exited" }

\* steps 1 to 4 are over
SourcesOver ==
    pc \in { "step5", "step6", "await_generate", "output", "await_notion_write", "done",
             "exited" }

\* C7: with the events Design Sync, 1:1 Alice and a recurring Standup, and the
\* notes Design Review (at the Design Sync start) and Alice 1:1 (10 minutes
\* after the 1:1 Alice start), Standup is filtered out, Design Sync gets Design
\* Review, 1:1 Alice gets Alice 1:1, and 2 entries have notes, 0 have none.
C7_EndToEndScenario ==
    (Correlated /\ allEvents = ScenarioEvents /\ granolaNotes = ScenarioNotes) =>
        /\ Len(calendarEvents) = 2
        /\ \A i \in DOMAIN calendarEvents : calendarEvents[i].title # Standup
        /\ Len(matchedMeetings) = 2
        /\ matchedMeetings[1].event.title = DesignSync
        /\ matchedMeetings[1].note # null
        /\ matchedMeetings[1].note.title = DesignReview
        /\ matchedMeetings[2].event.title = OneOnOneAlice
        /\ matchedMeetings[2].note # null
        /\ matchedMeetings[2].note.title = AliceOneOnOne
        /\ withNotes(matchedMeetings) = 2
        /\ withoutNotes(matchedMeetings) = 0

\* C7 witness: the scenario's events and notes were fetched and correlated
C7_Witness ==
    /\ Correlated
    /\ allEvents = ScenarioEvents
    /\ granolaNotes = ScenarioNotes
    /\ ScenarioNotes[2].date - ScenarioEvents[2].start = Minutes(10)
    /\ ScenarioNotes[1].date = ScenarioEvents[1].start

\* C8: no failure of a source fetch ends the run: a run exits with a failure
\* only after the generation call was issued; a source that failed leaves its
\* list empty or the prior report null; every configured source is attempted
\* whatever failed before it; correlation precedes the generation call; and a
\* run that has not ended can always take its next step.
C8_SourceFailuresNeverAbort ==
    /\ exitCode = 1 => HasCall("generateText")
    /\ pc \in {"done", "exited"} => (Correlated /\ HasCall("generateText"))
    /\ HasCall("generateText") => Correlated
    /\ Threw("getThisWeeksMeetings") => calendarEvents = <<>>
    /\ Threw("getActiveChannels") => slackActivity = <<>>
    /\ Threw("getNotesFromNotion") => granolaNotes = <<>>
    /\ ( \E i \in DOMAIN calls : calls[i] = Error("loadGranolaCache") )
          => (HasCall("getNotesFromNotion") \/ granolaNotes = <<>>)
    /\ ( \E i \in DOMAIN calls : calls[i] = Error("getPrevious515") )
          => previous515 = null
    /\ SourcesOver =>
          /\ HasCall("getThisWeeksMeetings")
          /\ (env["SLACK_TOKEN"] /\ env["SLACK_USER_ID"]) => HasCall("getActiveChannels")
          /\ cacheFile.exists => HasCall("getNotesFromLocalCache")
          /\ (env["NOTION_TOKEN"] /\ env["NOTION_GRANOLA_DB_ID"]
                /\ env["NOTION_515_PAGE_ID"]) =>
                /\ HasCall("getPrevious515")
                /\ ~cacheFile.exists => HasCall("getNotesFromNotion")
    /\ pc \notin {"done", "exited"} => ENABLED Next

\* C8 witness: the calendar, chat and fallback notes fetches threw, the prior
\* report fetch failed, and the generation call was issued all the same
C8_Witness ==
    /\ Threw("getThisWeeksMeetings")
    /\ Threw("getActiveChannels")
    /\ Threw("getNotesFromNotion")
    /\ \E i \in DOMAIN calls : calls[i] = Error("getPrevious515")
    /\ Correlated
    /\ HasCall("generateText")

\* C9: the Notion notes fetch is issued exactly when Notion is configured and
\* the local cache is missing or the local fetch threw, never after a local
\* fetch that returned, and with neither source the notes list is empty.
C9_FallbackExactlyWhenNeeded ==
    LET configured == env["NOTION_TOKEN"] /\ env["NOTION_GRANOLA_DB_ID"]
                        /\ env["NOTION_515_PAGE_ID"]
        needed == configured /\ (~cacheFile.exists \/ Threw("getNotesFromLocalCache"))
    IN  /\ HasCall("getNotesFromNotion") => needed
        /\ (NotesStepOver /\ needed) => HasCall("getNotesFromNotion")
        /\ Returned("getNotesFromLocalCache") => ~HasCall("getNotesFromNotion")
        /\ (NotesStepOver /\ ~cacheFile.exists /\ ~configured) =>
              /\ granolaNotes = <<>>
              /\ ~HasCall("getNotesFromLocalCache")
              /\ ~HasCall("getNotesFromNotion")

\* C9 witness: there is no local cache, Notion is configured, and the Notion
\* notes fetch was issued and returned notes
C9_Witness ==
    /\ NotesStepOver
    /\ ~cacheFile.exists
    /\ HasCall("getNotesFromNotion")
    /\ granolaNotes # <<>>

\* C10: when the cache file is there but cannot be read or parsed, the local
\* notes fetch throws, and with Notion configured the Notion notes fetch is
\* issued.
C10_UnreadableCacheFallsBack ==
    ( /\ NotesStepOver
      /\ cacheFile.exists
      /\ (~cacheFile.readable \/ ~cacheFile.text.ok)
      /\ env["NOTION_TOKEN"] /\ env["NOTION_GRANOLA_DB_ID"] /\ env["NOTION_515_PAGE_ID"] )
        => (Threw("getNotesFromLocalCache") /\ HasCall("getNotesFromNotion"))

\* the positions of the fetched events the claim lets through
KeptPositions ==
    { i \in DOMAIN allEvents :
        /\ ~allEvents[i].isRecurring
        /\ allEvents[i].myResponseStatus \in {"accepted", "unknown"} }

\* the k-th of those positions, counted from the front
KeptPosition(k) ==
    CHOOSE i \in KeptPositions : Cardinality({ j \in KeptPositions : j <= i }) = k

\* C11: the events given to correlation are the fetched events that are not
\* recurring and whose response status is accepted or unknown, in fetched
\* order; no other event is in the correlation result or among the meetings
\* without notes of the report.
C11_OnlyConfirmedNonRecurringEvents ==
    /\ Len(calendarEvents) = Cardinality(KeptPositions)
    /\ \A k \in DOMAIN calendarEvents : calendarEvents[k] = allEvents[KeptPosition(k)]
    /\ Correlated =>
          /\ Len(matchedMeetings) = Len(calendarEvents)
          /\ \A k \in DOMAIN matchedMeetings :
                /\ matchedMeetings[k].event = calendarEvents[k]
                /\ ~matchedMeetings[k].event.isRecurring
                /\ matchedMeetings[k].event.myResponseStatus
                      \notin {"declined", "tentative", "needsAction"}
    /\ draft # null =>
          /\ Len(draft.meetingsWithoutNotes) <= Cardinality(KeptPositions)
          /\ \A k \in DOMAIN draft.meetingsWithoutNotes :
                \E i \in KeptPositions :
                    draft.meetingsWithoutNotes[k] = allEvents[i].title

\* C11 witness: the fetched events hold a declined, a tentative, a
\* needsAction and a recurring one, two events were kept, and the report is
\* there
C11_Witness ==
    /\ draft # null
    /\ \A st \in {"declined", "tentative", "needsAction", "accepted", "unknown"} :
          \E i \in DOMAIN allEvents : allEvents[i].myResponseStatus = st
    /\ \E i \in DOMAIN allEvents :
          allEvents[i].isRecurring /\ allEvents[i].myResponseStatus = "unknown"
    /\ Len(calendarEvents) = 2
    /\ Len(matchedMeetings) = 2

\* C12: without the chat credentials no chat fetch is issued and the chat
\* activity stays empty; without the Notion configuration no prior-report
\* fetch is issued and there is no prior report; the run goes on in both cases.
C12_UnconfiguredSourceNeverCalled ==
    /\ ~(env["SLACK_TOKEN"] /\ env["SLACK_USER_ID"]) =>
          /\ ~HasCall("getActiveChannels")
          /\ slackActivity = <<>>
          /\ pc = "step2" => ENABLED Slack_Skip
    /\ ~(env["NOTION_TOKEN"] /\ env["NOTION_GRANOLA_DB_ID"] /\ env["NOTION_515_PAGE_ID"]) =>
          /\ ~HasCall("getPrevious515")
          /\ previous515 = null
          /\ pc = "step4" => ENABLED Previous_Skip

\* C12 witness: a run with one of the two chat credentials and two of the
\* three Notion settings reached the generation call
C12_Witness ==
    /\ env["SLACK_TOKEN"] /\ ~env["SLACK_USER_ID"]
    /\ env["NOTION_TOKEN"] /\ env["NOTION_515_PAGE_ID"] /\ ~env["NOTION_GRANOLA_DB_ID"]
    /\ HasCall("generateText")
    /\ ~HasCall("getActiveChannels")
    /\ ~HasCall("getPrevious515")

\* how often the run has called an operation
CallCount(what) == Cardinality({ i \in DOMAIN calls : calls[i] = Call(what) })

\* C13: no operation is called twice in a run (the two renderers count as the
\* one render call), no call follows a failure of the same operation, and
\* once the generation step is reached the generation service has been
\* called exactly once.
C13_NoRetries ==
    /\ \A what \in { "getThisWeeksMeetings", "getActiveChannels", "getNotesFromLocalCache",
                     "getNotesFromNotion", "getPrevious515", "generateText" } :
          CallCount(what) <= 1
    /\ CallCount("writeDraftToNotion") + CallCount("writeDraftToMarkdown") <= 1
    /\ \A i, j \in DOMAIN calls :
          (i < j /\ calls[i].op = "throw") => calls[j] # Call(calls[i].what)
    /\ pc \in {"await_generate", "output", "await_notion_write", "done", "exited"}
          => CallCount("generateText") = 1

\* C13 witness: the chat and Notion notes fetches and the generation call
\* failed, each after one call, and the run has ended
C13_Witness ==
    /\ pc = "exited"
    /\ Threw("getActiveChannels") /\ CallCount("getActiveChannels") = 1
    /\ Threw("getNotesFromNotion") /\ CallCount("getNotesFromNotion") = 1
    /\ Threw("generateText") /\ CallCount("generateText") = 1

\* C14: after a failed generation call the run has exited with code 1, there
\* is no report and no renderer was called; after a failed renderer the run
\* has exited with code 1 and the other renderer was not called.
C14_GenerationOrRenderFailureEndsRun ==
    /\ Threw("generateText") =>
          /\ pc = "exited" /\ exitCode = 1
          /\ draft = null
          /\ ~HasCall("writeDraftToNotion") /\ ~HasCall("writeDraftToMarkdown")
          /\ outputLocation = "none"
    /\ Threw("writeDraftToNotion") =>
          /\ pc = "exited" /\ exitCode = 1
          /\ ~HasCall("writeDraftToMarkdown")
          /\ outputLocation = "none"
    /\ Threw("writeDraftToMarkdown") =>
          /\ pc = "exited" /\ exitCode = 1
          /\ ~HasCall("writeDraftToNotion")
          /\ outputLocation = "none"
    /\ pc = "exited" => ~ENABLED Next

\* C14 witness: every source returned, the generation call failed and the
\* run has exited
C14_Witness ==
    /\ Returned("getThisWeeksMeetings")
    /\ Returned("getPrevious515")
    /\ matchedMeetings # <<>>
    /\ Threw("generateText")
    /\ pc = "exited"

-----------------------------------------------------------------------------
(* Properties of the response parser                                       *)

\* the piece of the reply that opens the section of a kind
PartOfKind(k) == CHOOSE p \in Range(parts) : Pieces[p].kind = k

\* the reply is made of the three sections, each opened by a ### header
ThreeHeadedSections ==
    /\ Len(parts) = 3
    /\ { Pieces[parts[i]].kind : i \in DOMAIN parts } = {"tldr", "did", "pri"}
    /\ \A i \in DOMAIN parts : Pieces[parts[i]].headed

\* a section's label, followed by a line break, stands in the body of a
\* piece in front of that section's header
LabelBeforeHeader ==
    \E i, j \in DOMAIN parts : i < j /\ Pieces[parts[j]].kind \in Pieces[parts[i]].strays

\* the trimmed text under the TLDR header of a piece
TextUnderTldr ==
    [ TldrPlain |-> DidStuff, TldrDecorated |-> DidStuff, TldrBlank |-> <<>>,
      TldrRecap |-> RecapOfWhatIDid, TldrInline |-> <<>> ]

\* the bullets under the header of a piece, marker and blanks removed, the
\* empty ones dropped
BulletsUnder ==
    [ WhatIDidPlain |-> <<ShippedX, FixedY>>, WhatIDidMessy |-> <<ShippedX, FixedY>>,
      WhatIDidSecondLevel |-> <<ShippedX>>, PrioritiesPlain |-> <<ShipZ>>,
      PrioritiesDecorated |-> <<ShipZ, PlanQ>>, PrioritiesSecondLevel |-> <<ShipZ>> ]

\* the TLDR a piece stands for: its text, the placeholder when it is blank
TldrUnder(p) == IF TextUnderTldr[p] = <<>> THEN TldrPlaceholder ELSE TextUnderTldr[p]

\* C15 as claimed: for a reply made of the three sections under ### headers
\* the TLDR is the trimmed text under the TLDR header, whatIDid the bullets
\* of the What-I-did section only and priorities the bullets of the
\* prioritizing section only.
C15_ParsesThreeSections ==
    (ppc # "parse" /\ ThreeHeadedSections) =>
        /\ report.tldr = TldrUnder(PartOfKind("tldr"))
        /\ report.whatIDid = BulletsUnder[PartOfKind("did")]
        /\ report.priorities = BulletsUnder[PartOfKind("pri")]

\* C15 amended: the same, for replies where no section label followed by a
\* line break stands in front of that section's header; the reply of the
\* example yields "Did stuff", ["Shipped X", "Fixed Y"],
\* ["Ship Z"].
C15_ParsesThreeSectionsLabelsInHeaders ==
    /\ (ppc # "parse" /\ ThreeHeadedSections /\ ~LabelBeforeHeader) =>
          /\ report.tldr = TldrUnder(PartOfKind("tldr"))
          /\ report.whatIDid = BulletsUnder[PartOfKind("did")]
          /\ report.priorities = BulletsUnder[PartOfKind("pri")]
    /\ (ppc # "parse" /\ response = ExampleReply) =>
          /\ report.tldr = <<"D","i","d"," ","s","t","u","f","f">>
          /\ report.whatIDid = << <<"S","h","i","p","p","e","d"," ","X">>,
                                  <<"F","i","x","e","d"," ","Y">> >>
          /\ report.priorities = << <<"S","h","i","p"," ","Z">> >>

\* C15 witness: the reply of the example has been parsed
C15_Witness ==
    /\ ppc # "parse"
    /\ response = ExampleReply
    /\ ThreeHeadedSections
    /\ Len(report.whatIDid) = 2

\* the sections whose label, followed by a line break, a piece holds
LabelsOf(p) ==
    (IF p = "TldrInline" THEN {} ELSE {Pieces[p].kind}) \cup Pieces[p].strays

\* the sections whose label, followed by a line break, the reply holds
LabelsPresent == UNION { LabelsOf(parts[i]) : i \in DOMAIN parts }

\* the reply without its k-th piece
Without(k) == SubSeq(parts, 1, k - 1) \o SubSeq(parts, k + 1, Len(parts))

\* the values extracted for the sections other than the one of kind k
SameButFor(k, a, b) ==
    /\ k # "tldr" => a.tldr = b.tldr
    /\ k # "did" => a.whatIDid = b.whatIDid
    /\ k # "pri" => a.priorities = b.priorities

WithoutNotesPositions == { i \in DOMAIN meetings : ~meetings[i].hasNotes }

\* C17: whatever the reply, meetingsWithoutNotes is the titles, in order, of
\* the entries with hasNotes = false, and the reflection field is the fixed
\* placeholder; parsing another text with the same entries gives the same two
\* values.
C17_FieldsNotTakenFromReply ==
    /\ ppc # "parse" =>
          /\ Len(report.meetingsWithoutNotes) = Cardinality(WithoutNotesPositions)
          /\ \A k \in DOMAIN report.meetingsWithoutNotes :
                \E i \in WithoutNotesPositions :
                    /\ Cardinality({ j \in WithoutNotesPositions : j <= i }) = k
                    /\ report.meetingsWithoutNotes[k] = meetings[i].event.title
          /\ report.whatIAmThinkingAbout =
                <<"<","!","-","-"," ","Y","o","u","r"," ","r","e","f","l","e","c","t","i","o","n","s"," ","h","e","r","e"," ","-","-",">">>
    /\ ppc = "done" =>
          /\ reparsed.meetingsWithoutNotes = report.meetingsWithoutNotes
          /\ reparsed.whatIAmThinkingAbout = report.whatIAmThinkingAbout

\* C17 witness: the reply holds a filled reflection section, two of three
\* entries have no notes, and the reply and the rendering have been parsed
C17_Witness ==
    /\ ppc = "done"
    /\ \E i \in DOMAIN parts : parts[i] = "ThinkingFilled"
    /\ Len(meetings) = 3
    /\ Len(report.meetingsWithoutNotes) = 2
    /\ response # markdown

\* C18: the report parsed back from the markdown rendering of a report has
\* the same whatIDid and the same priorities as that report.
C18_RenderingParsesBack ==
    ppc = "done" =>
        /\ reparsed.whatIDid = report.whatIDid
        /\ reparsed.priorities = report.priorities

-----------------------------------------------------------------------------
(* Properties of the field extractors                                      *)

\* the texts of the text leaves of a content list, depth first
RECURSIVE LeafTexts(_)
LeafTexts(contentList) ==
    IF contentList = <<>> THEN <<>>
    ELSE LET item == Head(contentList)
             own == IF item = null THEN <<>>
                    ELSE IF item.type = "text" /\ item.text # Absent
                              /\ ValueOf(item.text) # <<>>
                         THEN << ValueOf(item.text) >>
                         ELSE IF item.content # Absent
                              THEN LeafTexts(ValueOf(item.content))
                              ELSE <<>>
         IN  own \o LeafTexts(Tail(contentList))

\* C19: extractStructuredNotes gives the empty string for a null node or one
\* without content, and for a content tree the texts of its text leaves in
\* depth-first order joined by single spaces, leafless containers adding
\* nothing.
C19_LeafTextsJoinedBySingleSpaces ==
    xpc = "done" =>
        IF notesData = null THEN notesText = <<>>
        ELSE IF notesData.content = Absent THEN notesText = <<>>
        ELSE notesText = Join(LeafTexts(ValueOf(notesData.content)), <<" ">>)

\* the lines of the body the claim makes action items, trimmed, in order
ClaimedActionItems ==
    LET lines == SplitLines(content)
        IsItem(line) ==
            \/ \E p \in DOMAIN line :
                  p + 2 <= Len(line) /\ SubSeq(line, p, p + 2) = <<"[", " ", "]">>
            \/ \E label \in { ActionLabel, TodoLabel, FollowUpLabel, NextStepLabel } :
                  /\ Len(trim(line)) >= Len(label)
                  /\ toLowerCase(SubSeq(trim(line), 1, Len(label))) = label
        kept == SelectSeq(lines, IsItem)
    IN  [i \in DOMAIN kept |-> trim(kept[i])]

\* C20: both collaborators return, in input order, the trimmed lines that
\* hold '[ ]' or that, trimmed, start with action:, todo:, follow up: or
\* next step: in any case; a line with a label in its middle is no action
\* item.
C20_ActionItemsInBothCollaborators ==
    xpc = "done" =>
        /\ actionItems = ClaimedActionItems
        /\ notionActionItems = ClaimedActionItems

-----------------------------------------------------------------------------
(* Properties of the heuristic extractors of the Notion collaborators       *)

\* the lines of content
ContentLines == SplitLines(content)

\* the lines whose lower case contains one of the words
LinesWith(words) ==
    { i \in DOMAIN ContentLines :
        \E word \in words : \E p \in DOMAIN ContentLines[i] :
            /\ p + Len(word) - 1 <= Len(ContentLines[i])
            /\ toLowerCase(SubSeq(ContentLines[i], p, p + Len(word) - 1)) = word }

\* the lines that start with #
HeadingLines == { i \in DOMAIN ContentLines : ContentLines[i] # <<>> /\ ContentLines[i][1] = "#" }

\* the priorities the claim gives: the bullet lines after the first trigger
\* line and before the first heading after it, stripped, the empty ones left out
ClaimedPriorities ==
    LET triggers == LinesWith({ Prioritizing, PrioritiesWord, NextWeek })
    IN  IF triggers = {} THEN <<>>
        ELSE LET first == Min(triggers)
                 ends == { i \in HeadingLines : i > first }
                 last == IF ends = {} THEN Len(ContentLines) ELSE Min(ends) - 1
                 Marked(line) == line # <<>> /\ line[1] \in {"bullet", "-", "*"}
                 Text(line) == trim(SubSeq(line, 2, Len(line)))
                 bullets == SelectSeq(SubSeq(ContentLines, first + 1, last), Marked)
                 texts == [i \in DOMAIN bullets |-> Text(bullets[i])]
             IN  SelectSeq(texts, LAMBDA t : t # <<>>)

\* C21: extractPriorities collects, from the first line containing
\* prioritizing, priorities or next week up to the first following heading
\* line, every line starting with a bullet marker, stripped of marker and
\* whitespace and skipped only when empty, bullet lines containing a trigger
\* word included; other lines contribute nothing.
C21_PrioritiesBetweenTriggerAndHeading ==
    xpc \in {"summary", "done"} => priorities = ClaimedPriorities

\* the summary the claim gives
ClaimedSummary ==
    LET triggers == LinesWith({ SummaryWord, TldrWord })
    IN  IF triggers = {} THEN Absent
        ELSE LET first == Min(triggers)
                 Body(i) == ContentLines[i] # <<>> /\ i \notin HeadingLines
                 bodies == { i \in (first + 1)..Len(ContentLines) : Body(i) }
             IN  IF bodies = {} THEN Absent
                 ELSE LET ends == { i \in (Min(bodies) + 1)..Len(ContentLines) : ~Body(i) }
                          last == IF ends = {} THEN Len(ContentLines) ELSE Min(ends) - 1
                          joined == Join(SubSeq(ContentLines, Min(bodies), last), <<" ">>)
                      IN  Some(SubSeq(joined, 1, Min({Len(joined), 500})))

\* C22: extractSummary is undefined when no line contains summary or tldr or
\* no line is accumulated after one; otherwise it is the non-empty,
\* non-heading lines after the trigger line, up to the first empty or heading
\* line met after a collected line, joined by single spaces and cut to 500
\* characters.
C22_SummaryAfterTriggerLine ==
    xpc = "done" => summary = ClaimedSummary

-----------------------------------------------------------------------------
(* More properties of the run                                              *)

\* C23: with NOTION_TOKEN and NOTION_515_PAGE_ID set, the previous 5:15 is
\* fetched and the draft goes to the Notion page, whether or not
\* NOTION_GRANOLA_DB_ID is set.
C23_GranolaDatabaseIdOptional ==
    (env["NOTION_TOKEN"] /\ env["NOTION_515_PAGE_ID"]) =>
        /\ SourcesOver => HasCall("getPrevious515")
        /\ ~HasCall("writeDraftToMarkdown")
        /\ pc = "done" => outputLocation = "notion"

\* the place of an operation in the order of the run
CallOrder(what) ==
    CASE what = "getThisWeeksMeetings" -> 1
      [] what = "getActiveChannels" -> 2
      [] what = "getNotesFromLocalCache" -> 3
      [] what = "getNotesFromNotion" -> 4
      [] what = "getPrevious515" -> 5
      [] what = "matchNotesToEvents" -> 6
      [] what = "generateText" -> 7
      [] OTHER -> 8

\* the calls among the first k entries of the log that have not ended
Outstanding(k) ==
    { i \in 1..k : /\ calls[i].op = "call"
                   /\ ~\E j \in (i + 1)..k :
                         calls[j].op \in {"return", "throw"} /\ calls[j].what = calls[i].what }

\* C25: the calls are issued one after the other in the order calendar, chat,
\* notes, prior report, correlation, generation: never two calls outstanding,
\* the Notion notes fetch after a local attempt only once that attempt has
\* failed, and the generation call only when every enabled source fetch has
\* been issued and has ended.
C25_CallsStrictlySequential ==
    /\ \A k \in DOMAIN calls : Cardinality(Outstanding(k)) <= 1
    /\ \A i, j \in DOMAIN calls :
          (i < j /\ calls[i].op \in {"call", "run"} /\ calls[j].op \in {"call", "run"})
              => CallOrder(calls[i].what) < CallOrder(calls[j].what)
    /\ \A k \in DOMAIN calls :
          (calls[k] = Call("getNotesFromNotion") /\ HasCall("getNotesFromLocalCache"))
              => \E i \in 1..(k - 1) : calls[i] = Throw("getNotesFromLocalCache")
    /\ \A k \in DOMAIN calls :
          calls[k] = Call("generateText") =>
              /\ Outstanding(k - 1) = {}
              /\ \E i \in 1..(k - 1) : calls[i] = Call("getThisWeeksMeetings")
              /\ SlackEnabled => \E i \in 1..(k - 1) : calls[i] = Call("getActiveChannels")
              /\ NotionEnabled => \E i \in 1..(k - 1) : calls[i] = Call("getPrevious515")
              /\ \E i \in 1..(k - 1) : calls[i] = Ran("matchNotesToEvents")

\* C25 witness: a run called the calendar, the chat, the Notion notes, the
\* prior report, the correlation and the generation service, and all ended
C25_Witness ==
    /\ Returned("getThisWeeksMeetings")
    /\ Returned("getActiveChannels")
    /\ Returned("getNotesFromNotion")
    /\ Returned("getPrevious515")
    /\ Correlated
    /\ Returned("generateText")
    /\ Outstanding(Len(calls)) = {}

\* C27: the previous-week section of the request is the list of the prior
\* report's priorities as bullets, or the none-found marker; the marker is
\* there whenever there is no prior priority to list, a prior report with an
\* empty priorities list included.
C27_PreviousSectionBulletsOrMarker ==
    pc \in {"await_generate", "output", "await_notion_write", "done", "exited"} =>
        LET prior == IF previous515 = null THEN <<>> ELSE previous515.priorities
        IN  IF prior = <<>>
            THEN previousContext = NoPrevious515Found
            ELSE previousContext =
                     LastWeeksPriorities
                         \o Join([i \in DOMAIN prior |-> <<"-", " ">> \o prior[i]], <<"\n">>)

\* the steps of a run in the order of the code
StepRank ==
    CASE pc = "step1" -> 1 [] pc = "await_calendar" -> 2
      [] pc = "step2" -> 3 [] pc = "await_slack" -> 4
      [] pc = "step3" -> 5 [] pc = "await_local" -> 6 [] pc = "await_notion_notes" -> 7
      [] pc = "step4" -> 8 [] pc = "await_previous" -> 9
      [] pc = "step5" -> 10 [] pc = "step6" -> 11 [] pc = "await_generate" -> 12
      [] pc = "output" -> 13 [] pc = "await_notion_write" -> 14
      [] OTHER -> 15

\* the renderers a run has called
RendererCalls ==
    { i \in DOMAIN calls :
        calls[i] \in { Call("writeDraftToNotion"), Call("writeDraftToMarkdown") } }

\* a run that ended as a success: the generation call returned, then exactly
\* one renderer was called, once, and returned
Succeeded ==
    /\ exitCode = 0
    /\ Returned("generateText")
    /\ Cardinality(RendererCalls) = 1
    /\ \A i \in RendererCalls :
          /\ calls[i].what = (IF NotionEnabled THEN "writeDraftToNotion"
                              ELSE "writeDraftToMarkdown")
          /\ \E g \in 1..(i - 1) : calls[g] = Return("generateText")
          /\ \E r \in (i + 1)..Len(calls) : calls[r] = Return(calls[i].what)

\* C30: when every call returns or fails, a run ends, either as a success
\* (one renderer called once after a generation call that returned: Notion
\* when config.notion.enabled, the markdown file otherwise) or as a failure
\* with a non-zero exit code; no step is gone back to.
C30_RunTerminatesOnce ==
    /\ <>(pc \in {"done", "exited"})
    /\ [](pc = "done" => Succeeded)
    /\ [](pc = "exited" => exitCode # 0 /\ exitCode # Running)
    /\ [](pc \notin {"done", "exited"} => exitCode = Running)
    /\ [][StepRank' > StepRank]_pc

\* C30 witness: a run ended as a success after the calendar and the prior
\* report fetch failed, and the draft is on the Notion page
C30_Witness ==
    /\ pc = "done"
    /\ Succeeded
    /\ Threw("getThisWeeksMeetings")
    /\ outputLocation = "notion"
    /\ previous515 = null

-----------------------------------------------------------------------------
(* Properties of getActiveChannels                                         *)

\* the matches of channel c that are no direct message and lie in the
\* Monday-Friday window (a match without ts is posted now)
PostedInWindow(c) ==
    { i \in DOMAIN searchMatches :
        /\ searchMatches[i].channel.id = Some(c)
        /\ c[1] # "D"
        /\ \/ searchMatches[i].channel.name = Absent
           \/ SubSeq(ValueOf(searchMatches[i].channel.name), 1, 3) # <<"i", "m", "-">>
        /\ LET t == IF searchMatches[i].ts = Absent THEN Now ELSE ValueOf(searchMatches[i].ts)
           IN  Minutes(0) <= t /\ t < Minutes(5 * 24 * 60) }

\* the channel ids among the matches
ChannelIds ==
    { ValueOf(searchMatches[i].channel.id) : i \in { k \in DOMAIN searchMatches : searchMatches[k].channel.id # Absent } }

\* C24: getActiveChannels returns exactly the channels, direct messages left
\* out, with at least 2 messages in the Monday-Friday window, each once, with
\* these messages in order and messageCount their number, ordered by
\* non-increasing messageCount.
C24_ActiveChannelsAtLeastTwoMessages ==
    cpc = "done" =>
        /\ { activeChannels[k].channelId : k \in DOMAIN activeChannels }
              = { c \in ChannelIds : Cardinality(PostedInWindow(c)) >= 2 }
        /\ \A j, k \in DOMAIN activeChannels :
              /\ activeChannels[j].channelId = activeChannels[k].channelId => j = k
              /\ j < k => activeChannels[j].messageCount >= activeChannels[k].messageCount
        /\ \A k \in DOMAIN activeChannels :
              LET ch == activeChannels[k]
                  posted == PostedInWindow(ch.channelId)
              IN  /\ ch.messageCount = Len(ch.messages)
                  /\ ch.messageCount = Cardinality(posted)
                  /\ \A n \in DOMAIN ch.messages :
                        \E i \in posted :
                           /\ Cardinality({ x \in posted : x <= i }) = n
                           /\ ch.messages[n].text = searchMatches[i].text

\* C24 witness: the channel seen first has 2 messages in the window and the
\* one seen second has 3, and the result lists the second before the first
C24_Witness ==
    /\ cpc = "done"
    /\ Len(searchMatches) = 5
    /\ searchMatches[1].channel.id = Some(<<"C", "1">>)
    /\ Len(activeChannels) = 2
    /\ activeChannels[1].channelId = <<"C", "2">> /\ activeChannels[1].messageCount = 3
    /\ activeChannels[2].channelId = <<"C", "1">> /\ activeChannels[2].messageCount = 2

-----------------------------------------------------------------------------
(* The matcher under a reordering of the notes                             *)

\* at every event's turn at most one unused note has the highest score
\* above 0.3
NoTieAtAnyTurn == \A i \in DOMAIN matched : Cardinality(TopCandidates(i)) <= 1

\* C26: for two orders of the same notes of distinct identities, when at
\* every event's turn the highest score above 0.3 among the unused notes is
\* attained by one note only, both orders attach the same note, or none, to
\* every event.
C26_ReorderingOnlyBreaksTies ==
    (cpc = "done" /\ mpc = "done" /\ NoTieAtAnyTurn) =>
        /\ Len(matchedReordered) = Len(matched)
        /\ \A i \in DOMAIN matched :
              /\ matchedReordered[i].event = matched[i].event
              /\ matchedReordered[i].hasNotes = matched[i].hasNotes
              /\ matchedReordered[i].note = matched[i].note

\* C26 witness: three notes in another order, no tie at any turn, and two
\* events got a note each
C26_Witness ==
    /\ cpc = "done" /\ mpc = "done"
    /\ Len(notes) = 3
    /\ reordered # notes
    /\ NoTieAtAnyTurn
    /\ Len(matched) = 2
    /\ matched[1].note # null /\ matched[2].note # null
    /\ matchedReordered = matched

\* the kinds of block the renderers know
RecognizedKinds ==
    { "paragraph", "heading_1", "heading_2", "heading_3", "bulleted_list_item",
      "numbered_list_item", "to_do" }

\* the text of a block, empty when it has none
TextOfBlock(b) == IF RichTextOf(b) = Absent THEN <<>> ELSE PlainText(b)

\* the line the claim gives a block of a recognized kind
LineOfBlock(b) ==
    CASE b.type = "heading_1" -> <<"#", " ">> \o TextOfBlock(b)
      [] b.type = "heading_2" -> <<"#", "#", " ">> \o TextOfBlock(b)
      [] b.type = "heading_3" -> <<"#", "#", "#", " ">> \o TextOfBlock(b)
      [] b.type = "bulleted_list_item" -> <<"bullet", " ">> \o TextOfBlock(b)
      [] b.type = "numbered_list_item" -> <<"-", " ">> \o TextOfBlock(b)
      [] b.type = "to_do" /\ ValueOf(b.payload).checked ->
             <<"[", "x", "]", " ">> \o TextOfBlock(b)
      [] b.type = "to_do" /\ ~ValueOf(b.payload).checked ->
             <<"[", " ", "]", " ">> \o TextOfBlock(b)
      [] OTHER -> TextOfBlock(b)

\* one line per block of bs that has a line, joined with newline
LinesOfBlocks(bs, HasLine(_)) ==
    LET kept == SelectSeq(bs, HasLine)
    IN  Join([k \in DOMAIN kept |-> LineOfBlock(kept[k])], <<"\n">>)

Recognized(b) == b.type \in RecognizedKinds

RecognizedWithText(b) == Recognized(b) /\ TextOfBlock(b) # <<>>

\* C28 as stated: both renderers give the same text for the same blocks, one
\* prefixed line per block of a recognized kind, in input order, joined with
\* newline, the blocks of unrecognized kind skipped
C28_RenderersOneLinePerRecognizedBlock ==
    cpc = "done" /\ blocks # <<>>
        => /\ notesBlocksText = previousBlocksText
           /\ notesBlocksText = LinesOfBlocks(blocks, Recognized)

\* C28 amended: both renderers give the same text for the same blocks, one
\* prefixed line per block of a recognized kind that has non-empty text, in
\* input order, joined with newline; the blocks of unrecognized kind and the
\* blocks without text are skipped
C28_RenderersOneLinePerBlockWithText ==
    cpc = "done" /\ blocks # <<>>
        => /\ notesBlocksText = previousBlocksText
           /\ notesBlocksText = LinesOfBlocks(blocks, RecognizedWithText)

\* both renderers have rendered three blocks: a bulleted item with text, a
\* recognized block without text and a block of unrecognized kind
C28_Witness ==
    /\ cpc = "done"
    /\ \E i, j, k \in DOMAIN blocks :
          /\ blocks[i].type = "bulleted_list_item" /\ RecognizedWithText(blocks[i])
          /\ Recognized(blocks[j]) /\ ~RecognizedWithText(blocks[j])
          /\ ~Recognized(blocks[k])
    /\ previousBlocksText # <<>>

\* C29: the report a run wrote to the 5:15 page is the previous 5:15 of a run
\* of the week after, with the priorities that were written
C29_WrittenReportFoundNextWeek ==
    cpc = "done" => found # null /\ found.priorities = written.priorities

====
